---- MODULE Spec2Model ----
(***************************************************************************)
(* Diagnostic orchestration engine: MessageParser (src/src/parser.py) and  *)
(* DiagnosticOrchestrator (src/src/orchestrator.py).                       *)
(*                                                                         *)
(* Text is a sequence of one-character strings, so that the substring and  *)
(* regular-expression searches of the parser are computed character by     *)
(* character.  An Optional value is None or Some(v).  The confidence      *)
(* score, a float in the source, is an exact fraction                      *)
(* <<numerator, denominator>>.                                             *)
(***************************************************************************)
EXTENDS Integers, Sequences, FiniteSets, TLC

\* Optional[...]: Python's None, or a value
None == [is_none |-> TRUE]

Some(x) == [is_none |-> FALSE, v |-> x]

\* ------------------------------------------------------------------------
\* Characters
\* ------------------------------------------------------------------------

UpperSeq ==
    <<"A","B","C","D","E","F","G","H","I","J","K","L","M",
      "N","O","P","Q","R","S","T","U","V","W","X","Y","Z">>

LowerSeq ==
    <<"a","b","c","d","e","f","g","h","i","j","k","l","m",
      "n","o","p","q","r","s","t","u","v","w","x","y","z">>

UpperChars == {UpperSeq[i] : i \in 1..26}

LowerChars == {LowerSeq[i] : i \in 1..26}

DigitChars == {"0","1","2","3","4","5","6","7","8","9"}

\* \s of Python's re for the characters that occur in the modelled texts
SpaceChars == {" ", "\t", "\n", "\r", "\f"}

\* [a-zA-Z_]
IdStartChars == UpperChars \cup LowerChars \cup {"_"}

\* [a-zA-Z0-9_]
IdChars == IdStartChars \cup DigitChars

\* [a-zA-Z0-9_\.]
IdDotChars == IdChars \cup {"."}

\* [:\s]
ColonSpaceChars == SpaceChars \cup {":"}

\* the grave accent U+0060, which a TLA+ string cannot hold: the element
\* that stands for it in a text
Backtick == "GRAVE"

\* ["`\']
QuoteChars == {"\"", "'", Backtick}

\* [0-9T:\-\+Z] under re.IGNORECASE
DateChars == DigitChars \cup {"T", "t", "Z", "z", ":", "-", "+"}

LowerChar(c) ==
    IF c \in UpperChars
    THEN LowerSeq[CHOOSE i \in 1..26 : UpperSeq[i] = c]
    ELSE c

\* str.lower()
Lower(s) == [i \in 1..Len(s) |-> LowerChar(s[i])]

\* the literal w occurs in s at position i
MatchAt(s, i, w) ==
    /\ i >= 1
    /\ i + Len(w) - 1 <= Len(s)
    /\ \A k \in 1..Len(w) : s[i + k - 1] = w[k]

\* Python's  w in s
Contains(s, w) == \E i \in 1..(Len(s) + 1) : MatchAt(s, i, w)

MinOf(S) == CHOOSE x \in S : \A y \in S : x <= y

MaxOf(S) == CHOOSE x \in S : \A y \in S : x >= y

\* end (exclusive) of the longest run of characters of class C starting at i
SpanEnd(s, i, C) ==
    MinOf({j \in i..(Len(s) + 1) : j = Len(s) + 1 \/ s[j] \notin C})

\* end (exclusive) of the longest run of characters outside class C starting at i
SpanEndNot(s, i, C) ==
    MinOf({j \in i..(Len(s) + 1) : j = Len(s) + 1 \/ s[j] \in C})

\* str.strip()
Strip(s) ==
    LET keep == {i \in 1..Len(s) : s[i] \notin SpaceChars}
    IN  IF keep = {} THEN <<>> ELSE SubSeq(s, MinOf(keep), MaxOf(keep))

\* ------------------------------------------------------------------------
\* Literals of the parser's patterns (lower case: the patterns are compiled
\* with re.IGNORECASE and matched against the lowered text)
\* ------------------------------------------------------------------------

W_dag == <<"d","a","g">>

W_task == <<"t","a","s","k">>

W_airflow == <<"a","i","r","f","l","o","w">>

W_failed == <<"f","a","i","l","e","d">>

W_error == <<"e","r","r","o","r">>

W_exception == <<"e","x","c","e","p","t","i","o","n">>

W_workflow == <<"w","o","r","k","f","l","o","w">>

W_pipeline == <<"p","i","p","e","l","i","n","e">>

W_etl == <<"e","t","l">>

W_log == <<"l","o","g">>

W_execution_date == <<"e","x","e","c","u","t","i","o","n","_","d","a","t","e">>

W_run_id == <<"r","u","n","_","i","d">>

W_timeout == <<"t","i","m","e","o","u","t">>

W_time == <<"t","i","m","e">>

W_out == <<"o","u","t">>

W_network == <<"n","e","t","w","o","r","k">>

W_memory == <<"m","e","m","o","r","y">>

W_permission == <<"p","e","r","m","i","s","s","i","o","n">>

W_sql == <<"s","q","l">>

W_relation == <<"r","e","l","a","t","i","o","n">>

W_dbt == <<"d","b","t">>

W_model == <<"m","o","d","e","l">>

W_import == <<"i","m","p","o","r","t">>

W_disk == <<"d","i","s","k">>

W_unknown_dag == <<"u","n","k","n","o","w","n","_","d","a","g">>

\* ------------------------------------------------------------------------
\* MessageParser: the regular expressions, each as its leftmost match
\* ------------------------------------------------------------------------

\* every search returns the match found at the smallest start position
Leftmost(I) == IF I = {} THEN 0 ELSE MinOf(I)

\* AIRFLOW_PATTERNS['dag_failure'] = DAG\s+([a-zA-Z_][a-zA-Z0-9_]*)\s+(?:failed|error)
\* matched at position i: group 1, or None
DagFailureAt(s, L, i) ==
    LET b == SpanEnd(L, i + 3, SpaceChars)
        c == SpanEnd(L, b, IdChars)
        d == SpanEnd(L, c, SpaceChars)
    IN  IF /\ MatchAt(L, i, W_dag)
           /\ b > i + 3
           /\ b <= Len(s)
           /\ s[b] \in IdStartChars
           /\ d > c
           /\ (MatchAt(L, d, W_failed) \/ MatchAt(L, d, W_error))
        THEN Some(SubSeq(s, b, c - 1))
        ELSE None

\* AIRFLOW_PATTERNS['task_failure'] =
\*   Task\s+([a-zA-Z_][a-zA-Z0-9_\.]*)\s+in\s+DAG\s+([a-zA-Z_][a-zA-Z0-9_]*)
\* matched at position i: <<group 1, group 2>>, or None
TaskFailureAt(s, L, i) ==
    LET b == SpanEnd(L, i + 4, SpaceChars)
        c == SpanEnd(L, b, IdDotChars)
        d == SpanEnd(L, c, SpaceChars)
        e == SpanEnd(L, d + 2, SpaceChars)
        f == SpanEnd(L, e + 3, SpaceChars)
        g == SpanEnd(L, f, IdChars)
    IN  IF /\ MatchAt(L, i, W_task)
           /\ b > i + 4
           /\ b <= Len(s)
           /\ s[b] \in IdStartChars
           /\ d > c
           /\ MatchAt(L, d, <<"i","n">>)
           /\ e > d + 2
           /\ MatchAt(L, e, W_dag)
           /\ f > e + 3
           /\ f <= Len(s)
           /\ s[f] \in IdStartChars
        THEN Some(<<SubSeq(s, b, c - 1), SubSeq(s, f, g - 1)>>)
        ELSE None

\* <word>[:\s]+(<identifier>) matched at position i: group 1, or None
\* (the fallback patterns of _extract_dag_id and _extract_task_id)
WordThenIdAt(s, L, i, w, idChars) ==
    LET a == i + Len(w)
        b == SpanEnd(L, a, ColonSpaceChars)
        c == SpanEnd(L, b, idChars)
    IN  IF /\ MatchAt(L, i, w)
           /\ b > a
           /\ b <= Len(s)
           /\ s[b] \in IdStartChars
        THEN Some(SubSeq(s, b, c - 1))
        ELSE None

dag_failure_search(s) ==
    LET L == Lower(s)
        i == Leftmost({k \in 1..Len(s) : DagFailureAt(s, L, k) # None})
    IN  IF i = 0 THEN None ELSE DagFailureAt(s, L, i)

task_failure_search(s) ==
    LET L == Lower(s)
        i == Leftmost({k \in 1..Len(s) : TaskFailureAt(s, L, k) # None})
    IN  IF i = 0 THEN None ELSE TaskFailureAt(s, L, i)

WordThenIdSearch(s, w, idChars) ==
    LET L == Lower(s)
        i == Leftmost({k \in 1..Len(s) : WordThenIdAt(s, L, k, w, idChars) # None})
    IN  IF i = 0 THEN None ELSE WordThenIdAt(s, L, i, w, idChars)

\* a variant of _extract_dag_id that tries the generic pattern first
_extract_dag_id_generic_first(text) ==
    IF WordThenIdSearch(text, W_dag, IdChars) # None
    THEN WordThenIdSearch(text, W_dag, IdChars).v
    ELSE IF dag_failure_search(text) # None
    THEN dag_failure_search(text).v
    ELSE IF task_failure_search(text) # None
    THEN task_failure_search(text).v[2]
    ELSE W_unknown_dag

\* MessageParser._extract_dag_id
_extract_dag_id(text) ==
    IF dag_failure_search(text) # None
    THEN dag_failure_search(text).v
    ELSE IF task_failure_search(text) # None
    THEN task_failure_search(text).v[2]
    ELSE IF WordThenIdSearch(text, W_dag, IdChars) # None
    THEN WordThenIdSearch(text, W_dag, IdChars).v
    ELSE W_unknown_dag

\* MessageParser._extract_task_id
_extract_task_id(text) ==
    IF task_failure_search(text) # None
    THEN Some(task_failure_search(text).v[1])
    ELSE WordThenIdSearch(text, W_task, IdDotChars)

\* AIRFLOW_PATTERNS['execution_date'] =
\*   (?:execution_date|run_id):\s*([0-9T:\-\+Z]+)   matched at i: group 1, or None
ExecutionDateAt(s, L, i) ==
    LET a == IF MatchAt(L, i, W_execution_date)
             THEN i + Len(W_execution_date)
             ELSE i + Len(W_run_id)
        b == SpanEnd(L, a + 1, SpaceChars)
        c == SpanEnd(s, b, DateChars)
    IN  IF /\ (MatchAt(L, i, W_execution_date) \/ MatchAt(L, i, W_run_id))
           /\ a <= Len(s)
           /\ s[a] = ":"
           /\ c > b
        THEN Some(SubSeq(s, b, c - 1))
        ELSE None

\* 20\d{2}-\d{2}-\d{2}[T\s]\d{2}:\d{2}:\d{2}  (case sensitive) matched at i
IsoDateAt(s, i) ==
    /\ i + 18 <= Len(s)
    /\ s[i] = "2"
    /\ s[i + 1] = "0"
    /\ \A k \in {2, 3, 5, 6, 8, 9, 11, 12, 14, 15, 17, 18} : s[i + k] \in DigitChars
    /\ s[i + 4] = "-"
    /\ s[i + 7] = "-"
    /\ s[i + 10] \in (SpaceChars \cup {"T"})
    /\ s[i + 13] = ":"
    /\ s[i + 16] = ":"

\* MessageParser._extract_execution_date
_extract_execution_date(text) ==
    LET L == Lower(text)
        i == Leftmost({k \in 1..Len(text) : ExecutionDateAt(text, L, k) # None})
        j == Leftmost({k \in 1..Len(text) : IsoDateAt(text, k)})
    IN  IF i # 0 THEN ExecutionDateAt(text, L, i)
        ELSE IF j # 0 THEN Some(SubSeq(text, j, j + 18))
        ELSE None

\* AIRFLOW_PATTERNS['log_url'] = (https?://[^\s]+(?:log|airflow)[^\s]*)
\* matched at i: group 1, or None.  [^\s]+ backtracks inside the run of
\* non-space characters that follows "://", so the run must hold "log" or
\* "airflow" after at least one character; the group runs to the run's end.
LogUrlAt(s, L, i) ==
    LET h == IF i + 4 <= Len(s) /\ L[i + 4] = "s" THEN i + 5 ELSE i + 4
        a == h + 3
        e == SpanEndNot(L, a, SpaceChars)
    IN  IF /\ MatchAt(L, i, <<"h","t","t","p">>)
           /\ MatchAt(L, h, <<":","/","/">>)
           /\ \E q \in (a + 1)..Len(s) :
                \/ MatchAt(L, q, W_log) /\ q + Len(W_log) <= e
                \/ MatchAt(L, q, W_airflow) /\ q + Len(W_airflow) <= e
        THEN Some(SubSeq(s, i, e - 1))
        ELSE None

\* MessageParser._extract_log_url
_extract_log_url(text) ==
    LET L == Lower(text)
        i == Leftmost({k \in 1..Len(text) : LogUrlAt(text, L, k) # None})
    IN  IF i = 0 THEN None ELSE LogUrlAt(text, L, i)

\* position of the first "\n" at or after i, or Len(s) + 1
LineEnd(s, i) == SpanEndNot(s, i, {"\n"})

\* AIRFLOW_PATTERNS['exception'] = (?:Exception|Error):\s*([^\n]+)
\* matched at i: group 1, or None.  \s* is greedy and may cross line ends;
\* when the white space runs to the end of the text it gives characters
\* back until [^\n]+ finds a character that is not a line end.
ExceptionAt(s, L, i) ==
    LET a == IF MatchAt(L, i, W_exception)
             THEN i + Len(W_exception)
             ELSE i + Len(W_error)
        j == a + 1
        k == SpanEnd(L, j, SpaceChars)
        back == {m \in j..(k - 1) : s[m] # "\n"}
    IN  IF /\ (MatchAt(L, i, W_exception) \/ MatchAt(L, i, W_error))
           /\ a <= Len(s)
           /\ s[a] = ":"
        THEN IF k <= Len(s)
             THEN Some(SubSeq(s, k, LineEnd(s, k) - 1))
             ELSE IF back # {}
             THEN Some(SubSeq(s, MaxOf(back), LineEnd(s, MaxOf(back)) - 1))
             ELSE None
        ELSE None

\* the words of str.split(): maximal runs of characters that are not white space
WordStarts(s) ==
    {i \in 1..Len(s) : s[i] \notin SpaceChars /\ (i = 1 \/ s[i - 1] \in SpaceChars)}

WordAt(s, i) == SubSeq(s, i, SpanEndNot(s, i, SpaceChars) - 1)

\* the lines of str.split('\n')
LineStarts(s) == {i \in 1..(Len(s) + 1) : i = 1 \/ s[i - 1] = "\n"}

LineAt(s, i) == SubSeq(s, i, LineEnd(s, i) - 1)

\* text.split()[:20]
MaxWords == 20

\* ' '.join of the words that start at the n smallest positions of starts
RECURSIVE JoinWords(_, _, _)
JoinWords(s, starts, n) ==
    IF starts = {} \/ n = 0 THEN <<>>
    ELSE LET i == MinOf(starts)
             rest == JoinWords(s, starts \ {i}, n - 1)
         IN  IF rest = <<>> THEN WordAt(s, i) ELSE WordAt(s, i) \o <<" ">> \o rest

\* MessageParser._extract_error_message
_extract_error_message(text) ==
    LET L == Lower(text)
        i == Leftmost({k \in 1..Len(text) : ExceptionAt(text, L, k) # None})
        hit == {p \in LineStarts(text) :
                   \/ Contains(Lower(LineAt(text, p)), W_error)
                   \/ Contains(Lower(LineAt(text, p)), W_failed)
                   \/ Contains(Lower(LineAt(text, p)), W_exception)}
    IN  IF i # 0 THEN Strip(ExceptionAt(text, L, i).v)
        ELSE IF hit # {} THEN Strip(LineAt(text, MinOf(hit)))
        ELSE JoinWords(text, WordStarts(text), MaxWords)
             \o (IF Cardinality(WordStarts(text)) > MaxWords THEN <<".",".",".">> ELSE <<>>)

\* the literals ws[k..] occur from position i on, separated by \s*
RECURSIVE SpacedAt(_, _, _, _)
SpacedAt(L, i, ws, k) ==
    /\ MatchAt(L, i, ws[k])
    /\ \/ k = Len(ws)
       \/ SpacedAt(L, SpanEnd(L, i + Len(ws[k]), SpaceChars), ws, k + 1)

\* w1\s*w2...  found anywhere
ContainsSpaced(L, ws) == \E i \in 1..Len(L) : SpacedAt(L, i, ws, 1)

\* the literals ws[k..] occur from position i on, in this order, separated by
\* .* (which does not cross a line end)
RECURSIVE ChainFrom(_, _, _, _)
ChainFrom(L, i, ws, k) ==
    \E j \in i..Len(L) :
        /\ MatchAt(L, j, ws[k])
        /\ \A m \in i..(j - 1) : L[m] # "\n"
        /\ \/ k = Len(ws)
           \/ ChainFrom(L, j + Len(ws[k]), ws, k + 1)

\* w1.*w2...  found anywhere
ContainsChain(L, ws) ==
    \E i \in 1..Len(L) :
        /\ MatchAt(L, i, ws[1])
        /\ ChainFrom(L, i + Len(ws[1]), ws, 2)

\* ERROR_TYPE_PATTERNS, searched in the lowered text
ErrorTypePattern(name, L) ==
    CASE name = "timeout" ->
            \/ Contains(L, W_timeout)
            \/ ContainsSpaced(L, <<W_time, W_out>>)
            \/ ContainsSpaced(L, <<W_time \o <<"d">>, W_out>>)
      [] name = "connection" ->
            \/ Contains(L, <<"c","o","n","n","e","c","t","i","o","n">>)
            \/ Contains(L, W_network)
            \/ Contains(L, <<"u","n","r","e","a","c","h","a","b","l","e">>)
      [] name = "memory" ->
            \/ Contains(L, W_memory)
            \/ Contains(L, <<"o","o","m">>)
            \/ ContainsSpaced(L, <<W_out, <<"o","f">>, W_memory>>)
      [] name = "permission" ->
            \/ Contains(L, W_permission)
            \/ ContainsSpaced(L, <<<<"a","c","c","e","s","s">>, <<"d","e","n","i","e","d">>>>)
            \/ Contains(L, <<"u","n","a","u","t","h","o","r","i","z","e","d">>)
      [] name = "sql" ->
            \/ Contains(L, W_sql)
            \/ Contains(L, <<"q","u","e","r","y">>)
            \/ Contains(L, <<"d","a","t","a","b","a","s","e">>)
            \/ ContainsChain(L, <<W_relation, <<"d","o","e","s">>, <<"n","o","t">>,
                                  <<"e","x","i","s","t">>>>)
      [] name = "dbt" ->
            \/ Contains(L, W_dbt)
            \/ Contains(L, <<"c","o","m","p","i","l","a","t","i","o","n">>)
            \/ ContainsChain(L, <<W_model, W_failed>>)
      [] name = "python" ->
            \/ Contains(L, <<"p","y","t","h","o","n">>)
            \/ Contains(L, W_import)
            \/ Contains(L, <<"m","o","d","u","l","e">>)
            \/ Contains(L, <<"s","y","n","t","a","x">>)
      [] name = "resource" ->
            \/ Contains(L, W_disk)
            \/ Contains(L, <<"s","p","a","c","e">>)
            \/ Contains(L, <<"r","e","s","o","u","r","c","e">>)
            \/ Contains(L, <<"q","u","o","t","a">>)

\* the keys of ERROR_TYPE_PATTERNS in the order the dict is iterated
ErrorTypeOrder ==
    <<"timeout", "connection", "memory", "permission", "sql", "dbt", "python", "resource">>

\* a variant of _classify_error_type in which the last matching category wins
_classify_error_type_last_match(text) ==
    LET L == Lower(text)
        hit == {k \in 1..Len(ErrorTypeOrder) : ErrorTypePattern(ErrorTypeOrder[k], L)}
    IN  IF hit = {} THEN "general" ELSE ErrorTypeOrder[MaxOf(hit)]

\* MessageParser._classify_error_type
_classify_error_type(text) ==
    LET L == Lower(text)
        hit == {k \in 1..Len(ErrorTypeOrder) : ErrorTypePattern(ErrorTypeOrder[k], L)}
    IN  IF hit = {} THEN "general" ELSE ErrorTypeOrder[MinOf(hit)]

\* a variant of _is_airflow_failure that lets every text through
AnyTextIsFailure(text) == TRUE

\* MessageParser._is_airflow_failure
failure_indicators ==
    <<W_dag, W_task, W_airflow, W_failed, W_error, W_exception,
      W_workflow, W_pipeline, W_etl>>

_is_airflow_failure(text) ==
    \E k \in 1..Len(failure_indicators) : Contains(Lower(text), failure_indicators[k])

\* MessageParser._parse_failure_details
_parse_failure_details(text, channel, thread_ts) ==
    [dag_id |-> _extract_dag_id(text),
     task_id |-> _extract_task_id(text),
     execution_date |-> _extract_execution_date(text),
     error_type |-> _classify_error_type(text),
     error_message |-> _extract_error_message(text),
     log_url |-> _extract_log_url(text),
     channel |-> channel,
     thread_ts |-> thread_ts,
     original_text |-> text]

\* MessageParser.parse_slack_event: the ParsedFailure, or None.
\* An event is [has_event, bot_id, text, channel, thread_ts]; has_event is
\* whether the payload holds the key 'event'.
parse_slack_event(event) ==
    IF ~event.has_event THEN None
    ELSE IF event.bot_id \/ event.text = <<>> THEN None
    ELSE IF ~_is_airflow_failure(event.text) THEN None
    ELSE Some(_parse_failure_details(event.text, event.channel, event.thread_ts))

\* ------------------------------------------------------------------------
\* DiagnosticOrchestrator: planning, result application, scoring
\* ------------------------------------------------------------------------

\* Python truthiness of an Optional string, list or dict
\* a variant of Truthy that takes every value other than None, the empty
\* ones too
NotNone(o) == o # None

Truthy(o) == o # None /\ DOMAIN o.v # {}

\* <word>\s+["`\']*(<identifier>)  matched at i: group 1, or None
\* (the three patterns of _extract_model_name)
ModelPatternAt(s, L, i, w, idChars) ==
    LET a == i + Len(w)
        b == SpanEnd(L, a, SpaceChars)
        c == SpanEnd(L, b, QuoteChars)
        d == SpanEnd(L, c, idChars)
    IN  IF /\ MatchAt(L, i, w)
           /\ b > a
           /\ c <= Len(s)
           /\ s[c] \in IdStartChars
        THEN Some(SubSeq(s, c, d - 1))
        ELSE None

ModelPatternSearch(s, w, idChars) ==
    LET L == Lower(s)
        i == Leftmost({k \in 1..Len(s) : ModelPatternAt(s, L, k, w, idChars) # None})
    IN  IF i = 0 THEN None ELSE ModelPatternAt(s, L, i, w, idChars)

\* DiagnosticOrchestrator._extract_model_name
_extract_model_name(error_message) ==
    IF ModelPatternSearch(error_message, W_model, IdChars) # None
    THEN ModelPatternSearch(error_message, W_model, IdChars)
    ELSE IF ModelPatternSearch(error_message, W_relation, IdDotChars) # None
    THEN ModelPatternSearch(error_message, W_relation, IdDotChars)
    ELSE ModelPatternSearch(error_message, <<"t","a","b","l","e">>, IdDotChars)

\* a variant of MentionsDbt without .lower()
MentionsDbtCaseSensitive(error_message) == Contains(error_message, W_dbt)

\* line 195: 'dbt' in failure.error_message.lower()
MentionsDbt(error_message) == Contains(Lower(error_message), W_dbt)

\* the look-back of the redshift_errors probe, in hours
RedshiftErrorsHours == 24

\* DiagnosticOrchestrator._plan_diagnostic_tasks: the list of task
\* definitions [name, function, args], in the order the code appends them
_plan_diagnostic_tasks(failure) ==
    LET dag_state ==
            <<[name |-> "dag_state",
               function |-> "check_mwaa_dag_state",
               args |-> <<failure.dag_id>>]>>
        mwaa_logs ==
            IF Truthy(failure.log_url) \/ Truthy(failure.task_id)
            THEN IF Truthy(failure.log_url)
                 THEN <<[name |-> "mwaa_logs",
                         function |-> "get_mwaa_task_logs",
                         args |-> <<failure.log_url.v>>]>>
                 ELSE <<[name |-> "mwaa_logs",
                         function |-> "_get_recent_task_logs",
                         args |-> <<failure.dag_id, failure.task_id.v,
                                    failure.execution_date>>]>>
            ELSE <<>>
        model_name == _extract_model_name(failure.error_message)
        redshift ==
            IF \/ failure.error_type \in {"sql", "dbt"}
               \/ MentionsDbt(failure.error_message)
            THEN <<[name |-> "redshift_audit",
                    function |-> "query_redshift_audit_logs",
                    args |-> <<IF Truthy(model_name)
                               THEN model_name.v
                               ELSE failure.dag_id>>],
                   [name |-> "redshift_errors",
                    function |-> "get_redshift_recent_errors",
                    args |-> <<RedshiftErrorsHours>>]>>
            ELSE <<>>
        cloudwatch ==
            IF failure.error_type \in {"timeout", "connection", "python"}
            THEN <<[name |-> "cloudwatch_errors",
                    function |-> "get_cloudwatch_lambda_errors",
                    args |-> <<failure.dag_id>>]>>
            ELSE <<>>
    IN  dag_state \o mwaa_logs \o redshift \o cloudwatch

\* DiagnosticContext(failure=failure)
NewContext(failure) ==
    [failure |-> failure,
     mwaa_logs |-> None,
     redshift_audit |-> None,
     cloudwatch_errors |-> None,
     dag_state |-> None,
     context_metadata |-> <<>>]

\* isinstance(result, list): of the values a redshift probe returns, a list
\* or None, the lists
IsList(result) == result # None

\* a variant of _apply_diagnostic_result that keeps the result of an unknown
\* task in the metadata
_apply_diagnostic_result_keeping_unknown(context, task_name, result) ==
    IF task_name = "dag_state"
    THEN [context EXCEPT !.dag_state = result]
    ELSE IF task_name = "mwaa_logs"
    THEN [context EXCEPT !.mwaa_logs = result]
    ELSE IF task_name = "redshift_audit"
    THEN [context EXCEPT !.redshift_audit = result]
    ELSE IF task_name = "redshift_errors"
    THEN LET base == IF ~Truthy(context.redshift_audit)
                     THEN Some(<<>>)
                     ELSE context.redshift_audit
         IN  [context EXCEPT !.redshift_audit =
                 IF IsList(result) THEN Some(base.v \o result.v) ELSE base]
    ELSE IF task_name = "cloudwatch_errors"
    THEN [context EXCEPT !.cloudwatch_errors = result]
    ELSE [context EXCEPT !.context_metadata =
             [k \in DOMAIN @ \cup {task_name} |-> IF k = task_name THEN result ELSE @[k]]]

\* DiagnosticOrchestrator._apply_diagnostic_result: the context afterwards
_apply_diagnostic_result(context, task_name, result) ==
    IF task_name = "dag_state"
    THEN [context EXCEPT !.dag_state = result]
    ELSE IF task_name = "mwaa_logs"
    THEN [context EXCEPT !.mwaa_logs = result]
    ELSE IF task_name = "redshift_audit"
    THEN [context EXCEPT !.redshift_audit = result]
    ELSE IF task_name = "redshift_errors"
    THEN LET base == IF ~Truthy(context.redshift_audit)
                     THEN Some(<<>>)
                     ELSE context.redshift_audit
         IN  [context EXCEPT !.redshift_audit =
                 IF IsList(result) THEN Some(base.v \o result.v) ELSE base]
    ELSE IF task_name = "cloudwatch_errors"
    THEN [context EXCEPT !.cloudwatch_errors = result]
    ELSE context

\* dict.get(key, default)
Get(d, key, default) == IF key \in DOMAIN d THEN d[key] ELSE default

\* d[key] = value
Put(d, key, value) ==
    [k \in DOMAIN d \cup {key} |-> IF k = key THEN value ELSE d[k]]

\* a variant of ErrorKey with one key for every task
ErrorKeyShared(task_name) == "error"

\* f"{task_name}_error"
ErrorKey(task_name) == task_name \o "_error"

\* a variant of MaxScore in which the redshift weight is not added to the
\* denominator
MaxScoreWithoutRedshift(t) == (20 + 30 + 20 + 10) * t

\* the sum of the five  max_score += w  statements, in hundredths over the
\* denominator t
MaxScore(t) == (20 + 30 + 20 + 20 + 10) * t

\* a variant of Clamp without min(..., 1.0)
Unclamped(score, max_score) ==
    IF max_score > 0 THEN <<score, max_score>> ELSE <<0, 1>>

\* line 368: min(score / max_score, 1.0) if max_score > 0 else 0.0
Clamp(score, max_score) ==
    IF max_score > 0
    THEN IF score <= max_score THEN <<score, max_score>> ELSE <<max_score, max_score>>
    ELSE <<0, 1>>

\* DiagnosticOrchestrator._calculate_confidence_score, in exact arithmetic:
\* score and max_score are kept in hundredths over the common denominator
\* t (total_tasks, or 1 when the completion term is skipped), and the
\* result is the fraction <<numerator, denominator>>
_calculate_confidence_score(context) ==
    LET completed_tasks == Get(context.context_metadata, "completed_tasks", <<>>)
        total_tasks == Get(context.context_metadata, "total_tasks", 1)
        t == IF total_tasks > 0 THEN total_tasks ELSE 1
        base == IF context.failure.dag_id # W_unknown_dag THEN 20 ELSE 0
        logs == IF Truthy(context.mwaa_logs) THEN 30
                ELSE IF Truthy(context.dag_state) THEN 15
                ELSE 0
        redshift == IF Truthy(context.redshift_audit) THEN 20 ELSE 0
        cloudwatch == IF Truthy(context.cloudwatch_errors) THEN 20 ELSE 0
        completion == IF total_tasks > 0 THEN 10 * Len(completed_tasks) ELSE 0
        score == (base + logs + redshift + cloudwatch) * t + completion
    IN  Clamp(score, MaxScore(t))

\* ------------------------------------------------------------------------
\* Inputs
\* ------------------------------------------------------------------------

T_lunch ==
    <<"l","u","n","c","h"," ","o","r","d","e","r"," ","r","e","a","d","y">>

T_dag_failed ==
    <<"D","A","G"," ","e","t","l","_","o","r","d","e","r","s"," ",
      "f","a","i","l","e","d">>

T_pipeline ==
    <<"p","i","p","e","l","i","n","e"," ","b","r","o","k","e","n">>

\* the message texts a diagnosis is run on
Texts ==
    LET T_timeout ==
            <<"T","a","s","k"," ","l","o","a","d"," ","i","n"," ","D","A","G"," ","e","t","l","\n",
              "E","r","r","o","r",":"," ","t","i","m","e","o","u","t","\n",
              "h","t","t","p",":","/","/","x","/","l","o","g">>
        T_sql ==
            <<"D","A","G"," ","s","a","l","e","s"," ","f","a","i","l","e","d","\n",
              "E","r","r","o","r",":"," ","r","e","l","a","t","i","o","n"," ","d","i","m"," ",
              "d","o","e","s"," ","n","o","t"," ","e","x","i","s","t">>
    IN  {<<>>, T_lunch, T_dag_failed, T_pipeline, T_timeout, T_sql}

\* the Slack event payloads: a message per text, a bot's message, and a
\* payload without the key 'event'
Events ==
    {[has_event |-> TRUE, bot_id |-> FALSE, text |-> t,
      channel |-> "C1", thread_ts |-> None] : t \in Texts}
    \cup {[has_event |-> TRUE, bot_id |-> TRUE, text |-> T_dag_failed,
           channel |-> "C1", thread_ts |-> None],
          [has_event |-> FALSE, bot_id |-> FALSE, text |-> <<>>,
           channel |-> "", thread_ts |-> None]}

\* DiagnosticOrchestrator.__init__ defaults
DefaultMaxWorkers == 5

timeout_seconds == 240

\* future.result(timeout=30)
ResultTimeout == 30

\* seconds by which the clock advances in one step
TickSeconds == 120

\* what the probe functions return (src/src/tools.py; _get_recent_task_logs
\* is the orchestrator's own placeholder)
DagStateDict ==
    [environment_name |-> "env", environment_status |-> "AVAILABLE",
     webserver_url |-> "url"]

LogText == <<"l","o","g","s">>

ProbeReturns(function) ==
    CASE function = "check_mwaa_dag_state" -> {None, Some(DagStateDict)}
      [] function = "get_mwaa_task_logs" -> {None, Some(<<>>), Some(LogText)}
      [] function = "_get_recent_task_logs" -> {None}
      [] function = "query_redshift_audit_logs" -> {Some(<<>>), Some(<<"audit_row">>)}
      [] function = "get_redshift_recent_errors" -> {None, Some(<<"error_row">>)}
      [] function = "get_cloudwatch_lambda_errors" -> {Some(<<>>), Some(<<"cw_message">>)}

\* whether the call of the probe function can end in an exception.  The
\* orchestrator calls the functions of tools.py through task['function'] and
\* handles an exception of any of them (line 150); as tools.py stands,
\* get_redshift_recent_errors lets the exception of a failed query out and
\* the other functions log theirs and return None or [].  The placeholder
\* _get_recent_task_logs is the orchestrator's own and catches everything.
ProbeMayRaise(function) == function # "_get_recent_task_logs"

\* ------------------------------------------------------------------------
\* State
\* ------------------------------------------------------------------------

VARIABLES
    event,            \* the payload diagnose_failure is called with
    max_workers,      \* self.max_workers
    pc,               \* where the call is
    failure,          \* diagnose_failure: failure (Optional ParsedFailure)
    tasks,            \* _collect_diagnostic_context: tasks
    futures,          \* the submitted futures, by position in tasks
    yielded,          \* the futures as_completed has handed to the loop
    completed_tasks,  \* _collect_diagnostic_context: completed_tasks
    context,          \* the DiagnosticContext (Optional: None before it is created)
    clock,            \* seconds since the futures were submitted
    exc,              \* the exception propagating out of the collection, or ""
    analysis,         \* diagnose_failure: analysis
    llm_calls,        \* calls of _call_llm
    invoked,          \* calls of each probe function, by task name
    result,           \* what diagnose_failure returned (Optional DiagnosticResult)
    lambda_event,     \* lambda_handler: event (its keys and its parsed_data)
    lambda_pc,        \* where the lambda_handler invocation is
    lambda_exc,       \* lambda_handler: the exception its except clause caught, or ""
    credential_calls, \* the calls of get_credentials: TRUE when the secrets were read
    calls,            \* calls of gather_diagnostics, the probes and invoke_llm
    diagnostics,      \* lambda_handler: diagnostics (None before it is gathered)
    lambda_analysis,  \* lambda_handler: analysis
    posts,            \* the calls of post_to_slack, in order
    metrics,          \* orchestrator.metrics: the names of the metrics added
    published,        \* the calls of cloudwatch.put_metric_data, in order
    response,         \* what lambda_handler returned (None before it returns)
    tool_call,        \* a call of a function of tools.py with what its services answer
    tool_result,      \* how that call ended (None while it has not)
    message,          \* handle_message_events: event (None when no message arrives)
    listener_pc,      \* where handle_message_events is
    reactions,        \* the calls of client.reactions_add, in order
    invocations       \* the calls of lambda_client.invoke, in order

diagnose_vars ==
    <<event, max_workers, pc, failure, tasks, futures, yielded, completed_tasks,
      context, clock, exc, analysis, llm_calls, invoked, result>>

lambda_vars ==
    <<lambda_event, lambda_pc, lambda_exc, credential_calls, calls, diagnostics,
      lambda_analysis, posts, metrics, published, response>>

service_vars ==
    <<tool_call, tool_result, message, listener_pc, reactions, invocations>>

vars == <<diagnose_vars, lambda_vars, service_vars>>

LambdaCallees ==
    {"gather_diagnostics", "get_mwaa_task_logs", "get_dag_run_status",
     "query_redshift_audit_logs", "get_cloudwatch_lambda_errors", "invoke_llm"}

\* lambda_handler is entered with an event of the set events, or, at "idle",
\* is not invoked at all
LambdaAtStart(events, at) ==
    /\ lambda_event \in events
    /\ lambda_pc = at
    /\ lambda_exc = ""
    /\ credential_calls = <<>>
    /\ calls = [f \in LambdaCallees |-> 0]
    /\ diagnostics = None
    /\ lambda_analysis = None
    /\ posts = <<>>
    /\ metrics = <<>>
    /\ published = <<>>
    /\ response = None

\* the functions of tools.py are called with a call of the set tool_calls and
\* the Slack listener receives a message of the set messages; None is no
\* call and no message
ServicesAtStart(tool_calls, messages) ==
    /\ tool_call \in tool_calls
    /\ tool_result = None
    /\ message \in messages
    /\ listener_pc = "start"
    /\ reactions = <<>>
    /\ invocations = <<>>

ProbeNames ==
    <<"dag_state", "mwaa_logs", "redshift_audit", "redshift_errors", "cloudwatch_errors">>

ProbeNameSet == {ProbeNames[i] : i \in 1..Len(ProbeNames)}

Terminal == {"rejected", "failed", "raised", "done"}

\* a submitted future; seq is its place in the order of completion and
\* early tells whether it was finished when as_completed took its snapshot
NewFuture ==
    [state |-> "queued", kind |-> "none", value |-> None, error |-> "",
     started_at |-> -1, finished_at |-> -1, seq |-> 0, early |-> "unknown"]

Init ==
    /\ LambdaAtStart({<<>>}, "idle")
    /\ ServicesAtStart({None}, {None})
    /\ event \in Events
    /\ max_workers \in {1, 2, DefaultMaxWorkers}
    /\ pc = "received"
    /\ failure = None
    /\ tasks = <<>>
    /\ futures = <<>>
    /\ yielded = {}
    /\ completed_tasks = <<>>
    /\ context = None
    /\ clock = 0
    /\ exc = ""
    /\ analysis = None
    /\ llm_calls = 0
    /\ invoked = [n \in ProbeNameSet |-> 0]
    /\ result = None

\* ------------------------------------------------------------------------
\* diagnose_failure, step by step
\* ------------------------------------------------------------------------

\* diagnose_failure, lines 86-91: parse the event; None is returned when the
\* parser gives no failure
Parse ==
    /\ UNCHANGED <<lambda_vars, service_vars>>
    /\ pc = "received"
    /\ failure' = parse_slack_event(event)
    /\ pc' = IF parse_slack_event(event) = None THEN "rejected" ELSE "parsed"
    /\ UNCHANGED <<event, max_workers, tasks, futures, yielded, completed_tasks,
                   context, clock, exc, analysis, llm_calls, invoked, result>>

\* _collect_diagnostic_context, lines 128-142: create the context, plan the
\* tasks and submit every one of them to the executor
PlanAndSubmit ==
    /\ UNCHANGED <<lambda_vars, service_vars>>
    /\ pc = "parsed"
    /\ context' = Some(NewContext(failure.v))
    /\ tasks' = _plan_diagnostic_tasks(failure.v)
    /\ futures' = [i \in 1..Len(_plan_diagnostic_tasks(failure.v)) |-> NewFuture]
    /\ completed_tasks' = <<>>
    /\ yielded' = {}
    /\ clock' = 0
    /\ pc' = "collecting"
    /\ UNCHANGED <<event, max_workers, failure, exc, analysis, llm_calls, invoked, result>>

Running == {i \in 1..Len(futures) : futures[i].state = "running"}

Queued == {i \in 1..Len(futures) : futures[i].state = "queued"}

Done == {i \in 1..Len(futures) : futures[i].state = "done"}

\* a worker thread of the pool takes the oldest queued work item
WorkerStart(i) ==
    /\ UNCHANGED <<lambda_vars, service_vars>>
    /\ pc \in {"collecting", "shutdown"}
    /\ Queued # {}
    /\ i = MinOf(Queued)
    /\ Cardinality(Running) < max_workers
    /\ futures' = [futures EXCEPT ![i].state = "running", ![i].started_at = clock]
    /\ invoked' = [invoked EXCEPT ![tasks[i].name] = @ + 1]
    /\ UNCHANGED <<event, max_workers, pc, failure, tasks, yielded, completed_tasks,
                   context, clock, exc, analysis, llm_calls, result>>

\* a variant of WorkerReturn in which the worker thread applies the result
WorkerReturnApplies(i, v) ==
    /\ UNCHANGED <<lambda_vars, service_vars>>
    /\ pc \in {"collecting", "shutdown"}
    /\ i \in {k \in 1..Len(futures) : futures[k].state = "running"}
    /\ v \in ProbeReturns(tasks[i].function)
    /\ futures' = [futures EXCEPT ![i].state = "done", ![i].kind = "return",
                                  ![i].value = v, ![i].finished_at = clock,
                                  ![i].seq = Cardinality(Done) + 1]
    /\ context' = Some(_apply_diagnostic_result(context.v, tasks[i].name, v))
    /\ UNCHANGED <<event, max_workers, pc, failure, tasks, yielded, completed_tasks,
                   clock, exc, analysis, llm_calls, invoked, result>>

\* the probe function returns value v: the future is finished with a result
WorkerReturn(i, v) ==
    /\ UNCHANGED <<lambda_vars, service_vars>>
    /\ pc \in {"collecting", "shutdown"}
    /\ i \in Running
    /\ v \in ProbeReturns(tasks[i].function)
    /\ futures' = [futures EXCEPT ![i].state = "done", ![i].kind = "return",
                                  ![i].value = v, ![i].finished_at = clock,
                                  ![i].seq = Cardinality(Done) + 1]
    /\ UNCHANGED <<event, max_workers, pc, failure, tasks, yielded, completed_tasks,
                   context, clock, exc, analysis, llm_calls, invoked, result>>

\* the probe function raises: the future is finished with an exception
WorkerRaise(i) ==
    /\ UNCHANGED <<lambda_vars, service_vars>>
    /\ pc \in {"collecting", "shutdown"}
    /\ i \in Running
    /\ ProbeMayRaise(tasks[i].function)
    /\ futures' = [futures EXCEPT ![i].state = "done", ![i].kind = "raise",
                                  ![i].error = "probe failed", ![i].finished_at = clock,
                                  ![i].seq = Cardinality(Done) + 1]
    /\ UNCHANGED <<event, max_workers, pc, failure, tasks, yielded, completed_tasks,
                   context, clock, exc, analysis, llm_calls, invoked, result>>

\* as_completed has taken its snapshot of the finished futures
Entered == futures # <<>> /\ \A i \in 1..Len(futures) : futures[i].early # "unknown"

\* line 143, the first step of the for statement: as_completed notes which
\* futures are finished already; it hands these over first, as a set, and
\* the others afterwards in the order in which they finish
EnterLoop ==
    /\ UNCHANGED <<lambda_vars, service_vars>>
    /\ pc = "collecting"
    /\ futures # <<>>
    /\ ~Entered
    /\ futures' = [i \in 1..Len(futures) |->
                      [futures[i] EXCEPT !.early =
                          IF futures[i].state = "done" THEN "yes" ELSE "no"]]
    /\ UNCHANGED <<event, max_workers, pc, failure, tasks, yielded, completed_tasks,
                   context, clock, exc, analysis, llm_calls, invoked, result>>

\* time passes while the loop waits in as_completed.  The loop is woken as
\* soon as a future finishes and an idle worker takes a queued item at once,
\* so no time passes while a finished future is waiting to be handed over
\* or an item is queued beside an idle worker; after the deadline the
\* clock is not needed.
Tick ==
    /\ UNCHANGED <<lambda_vars, service_vars>>
    /\ pc = "collecting"
    /\ Entered
    /\ clock < timeout_seconds
    /\ Done \subseteq yielded
    /\ Queued = {} \/ Cardinality(Running) >= max_workers
    /\ clock' = clock + TickSeconds
    /\ UNCHANGED <<event, max_workers, pc, failure, tasks, futures, yielded,
                   completed_tasks, context, exc, analysis, llm_calls, invoked, result>>

\* a variant of RecordError that stores the error under the task's name
RecordErrorUnderName(ctx, task_name, e) ==
    [ctx EXCEPT !.context_metadata = Put(@, task_name, e)]

\* line 152: context.context_metadata[f"{task_name}_error"] = str(e)
RecordError(ctx, task_name, e) ==
    [ctx EXCEPT !.context_metadata = Put(@, ErrorKey(task_name), e)]

\* a variant of LoopCatches for  except TimeoutError
LoopCatchesOnlyTimeout(e) == e = "TimeoutError"

\* line 150: except Exception catches whatever a probe function raised
LoopCatches(e) == TRUE

\* lines 143-152, one iteration of the loop: as_completed hands over a
\* finished future; future.result(timeout=30) of a finished future returns
\* its value or raises its exception at once.  An exception the except
\* clause does not catch leaves the loop like the deadline's.
HandleCompleted(i) ==
    /\ UNCHANGED <<lambda_vars, service_vars>>
    /\ pc = "collecting"
    /\ Entered
    /\ i \in Done \ yielded
    /\ \/ futures[i].early = "yes"
       \/ \A j \in Done \ yielded :
              futures[j].early = "no" /\ futures[i].seq <= futures[j].seq
    /\ yielded' = yielded \cup {i}
    /\ IF futures[i].kind = "return"
       THEN /\ context' = Some(_apply_diagnostic_result(context.v, tasks[i].name,
                                                        futures[i].value))
            /\ completed_tasks' = Append(completed_tasks, tasks[i].name)
            /\ UNCHANGED <<pc, exc>>
       ELSE IF LoopCatches(futures[i].error)
       THEN /\ context' = Some(RecordError(context.v, tasks[i].name, futures[i].error))
            /\ UNCHANGED <<completed_tasks, pc, exc>>
       ELSE /\ exc' = futures[i].error
            /\ pc' = "shutdown"
            /\ UNCHANGED <<context, completed_tasks>>
    /\ UNCHANGED <<event, max_workers, failure, tasks, futures, clock,
                   analysis, llm_calls, invoked, result>>

\* lines 154-157: the summary written into the metadata before the return
FinishContext(ctx, completed, planned) ==
    [ctx EXCEPT !.context_metadata =
        Put(Put(@, "completed_tasks", completed), "total_tasks", Len(planned))]

\* every future was handed over: the loop ends, the executor is left (all
\* workers are idle), lines 154-157 run and the context is returned
CollectReturn ==
    /\ UNCHANGED <<lambda_vars, service_vars>>
    /\ pc = "collecting"
    /\ Entered
    /\ yielded = 1..Len(futures)
    /\ context' = Some(FinishContext(context.v, completed_tasks, tasks))
    /\ pc' = "collected"
    /\ UNCHANGED <<event, max_workers, failure, tasks, futures, yielded, completed_tasks,
                   clock, exc, analysis, llm_calls, invoked, result>>

\* line 143: as_completed(..., timeout=self.timeout_seconds) raises
\* TimeoutError once the deadline has passed and a future was not handed
\* over; the exception leaves the loop and enters the executor's exit
DeadlineRaise ==
    /\ UNCHANGED <<lambda_vars, service_vars>>
    /\ pc = "collecting"
    /\ Entered
    /\ clock >= timeout_seconds
    /\ yielded # 1..Len(futures)
    /\ exc' = "TimeoutError"
    /\ pc' = "shutdown"
    /\ UNCHANGED <<event, max_workers, failure, tasks, futures, yielded, completed_tasks,
                   context, clock, analysis, llm_calls, invoked, result>>

\* a variant of DiagnoseCatches for  except KeyError
DiagnoseCatchesOnlyKeyError(e) == e = "KeyError"

\* line 114: except Exception catches whatever left the try of lines 86-112
DiagnoseCatches(e) == TRUE

\* a variant of ShutdownAndFail for  executor.shutdown(wait=False)
ShutdownWithoutWait ==
    /\ UNCHANGED <<lambda_vars, service_vars>>
    /\ pc = "shutdown"
    /\ result' = None
    /\ pc' = IF DiagnoseCatches(exc) THEN "failed" ELSE "raised"
    /\ UNCHANGED <<event, max_workers, failure, tasks, futures, yielded, completed_tasks,
                   context, clock, exc, analysis, llm_calls, invoked>>

\* line 134: leaving the with block calls executor.shutdown(wait=True), which
\* returns when every submitted work item has run; then the exception
\* reaches diagnose_failure, lines 114-116, which returns None; an
\* exception the except clause does not catch leaves diagnose_failure
ShutdownAndFail ==
    /\ UNCHANGED <<lambda_vars, service_vars>>
    /\ pc = "shutdown"
    /\ Done = 1..Len(futures)
    /\ result' = None
    /\ pc' = IF DiagnoseCatches(exc) THEN "failed" ELSE "raised"
    /\ UNCHANGED <<event, max_workers, failure, tasks, futures, yielded, completed_tasks,
                   context, clock, exc, analysis, llm_calls, invoked>>

AnalysisText == <<"a","n","a","l","y","s","i","s">>

\* _generate_analysis, lines 268-296: the prompt is built and the LLM is
\* called; any exception is caught and None is returned
GenerateAnalysis(ok) ==
    /\ UNCHANGED <<lambda_vars, service_vars>>
    /\ pc = "collected"
    /\ llm_calls' = llm_calls + 1
    /\ analysis' = IF ok THEN Some(AnalysisText) ELSE None
    /\ pc' = "analysed"
    /\ UNCHANGED <<event, max_workers, failure, tasks, futures, yielded, completed_tasks,
                   context, clock, exc, invoked, result>>

\* DiagnosticResult(...), lines 104-109
NewResult(ctx, text, processing_time, confidence) ==
    [context |-> ctx,
     analysis |-> text,
     confidence_score |-> confidence,
     processing_time_ms |-> processing_time,
     services_called |-> <<>>,
     errors_encountered |-> <<>>]

\* lines 101-112: the result is built, with the confidence score, and returned
Return ==
    /\ UNCHANGED <<lambda_vars, service_vars>>
    /\ pc = "analysed"
    /\ result' = Some(NewResult(context.v, analysis, clock * 1000,
                                _calculate_confidence_score(context.v)))
    /\ pc' = "done"
    /\ UNCHANGED <<event, max_workers, failure, tasks, futures, yielded, completed_tasks,
                   context, clock, exc, analysis, llm_calls, invoked>>

Next ==
    \/ Parse
    \/ PlanAndSubmit
    \/ \E i \in 1..Len(futures) : WorkerStart(i)
    \/ \E i \in 1..Len(futures) : \E v \in ProbeReturns(tasks[i].function) : WorkerReturn(i, v)
    \/ \E i \in 1..Len(futures) : WorkerRaise(i)
    \/ EnterLoop
    \/ Tick
    \/ \E i \in 1..Len(futures) : HandleCompleted(i)
    \/ CollectReturn
    \/ DeadlineRaise
    \/ ShutdownAndFail
    \/ \E ok \in BOOLEAN : GenerateAnalysis(ok)
    \/ Return

Spec == Init /\ [][Next]_vars

\* ------------------------------------------------------------------------
\* _plan_diagnostic_tasks on its own: the failures the parser produces from
\* a family of messages, planned
\* ------------------------------------------------------------------------

PlanEvents ==
    LET H_task == <<"T","a","s","k"," ","t","1"," ","i","n"," ","D","A","G"," ","e","t","l">>
        H_dag == <<"D","A","G"," ","e","t","l"," ","f","a","i","l","e","d">>
        E_prefix == <<"\n","E","r","r","o","r",":"," ">>
        U_log == <<"\n","h","t","t","p",":","/","/","x","/","l","o","g">>
        PlanHeads == {T_pipeline, H_dag, H_task}
        PlanErrors ==
            {<<"b","o","o","m">>,
             W_timeout,
             W_network,
             W_memory,
             W_permission,
             W_sql,
             W_dbt,
             W_import,
             W_disk,
             <<"D","B","T"," ">> \o W_timeout,
             <<"D","b","t"," ">> \o W_memory,
             W_dbt \o <<" ">> \o W_model \o <<" ","d","i","m"," ">> \o W_network}
        PlanTails == {<<>>, U_log}
    IN  {[has_event |-> TRUE, bot_id |-> FALSE, text |-> h \o E_prefix \o e \o u,
          channel |-> "C1", thread_ts |-> None] :
            h \in PlanHeads, e \in PlanErrors, u \in PlanTails}

InitPlan ==
    /\ LambdaAtStart({<<>>}, "idle")
    /\ ServicesAtStart({None}, {None})
    /\ event \in PlanEvents
    /\ max_workers = DefaultMaxWorkers
    /\ pc = "received"
    /\ failure = None
    /\ tasks = <<>>
    /\ futures = <<>>
    /\ yielded = {}
    /\ completed_tasks = <<>>
    /\ context = None
    /\ clock = 0
    /\ exc = ""
    /\ analysis = None
    /\ llm_calls = 0
    /\ invoked = [n \in ProbeNameSet |-> 0]
    /\ result = None

NextPlan ==
    \/ Parse
    \/ PlanAndSubmit

SpecPlan == InitPlan /\ [][NextPlan]_vars

\* ------------------------------------------------------------------------
\* _calculate_confidence_score on its own: contexts drawn from every
\* combination of slot values and metadata, scored
\* ------------------------------------------------------------------------

\* the largest total_tasks and completed_tasks length drawn
MaxTasks == 3

\* metadata: each of the two keys absent or present; when both are present
\* the completed tasks are at most total_tasks
ScoreMetadata ==
    {<<>>}
    \cup {Put(<<>>, "completed_tasks", [i \in 1..k |-> "task"]) : k \in 0..MaxTasks}
    \cup {Put(<<>>, "total_tasks", n) : n \in 0..MaxTasks}
    \cup {Put(Put(<<>>, "completed_tasks", [i \in 1..k |-> "task"]), "total_tasks", n) :
            k \in 0..MaxTasks, n \in 0..MaxTasks}

ScoreContexts ==
    {[failure |-> f, mwaa_logs |-> m, redshift_audit |-> r, cloudwatch_errors |-> c,
      dag_state |-> d, context_metadata |-> md] :
        f \in {[_parse_failure_details(T_dag_failed, "C1", None) EXCEPT !.dag_id = d] :
                  d \in {W_unknown_dag, W_etl}},
        m \in {None, Some(<<>>), Some(LogText)},
        r \in {None, Some(<<>>), Some(<<"audit_row">>)},
        c \in {None, Some(<<>>), Some(<<"cw_message">>)},
        d \in {None, Some(<<>>), Some(DagStateDict)},
        md \in {x \in ScoreMetadata :
                  ("completed_tasks" \in DOMAIN x /\ "total_tasks" \in DOMAIN x)
                      => Len(x["completed_tasks"]) <= x["total_tasks"]}}

InitScore ==
    /\ LambdaAtStart({<<>>}, "idle")
    /\ ServicesAtStart({None}, {None})
    /\ event \in {e \in Events : e.text = T_dag_failed /\ ~e.bot_id}
    /\ max_workers = DefaultMaxWorkers
    /\ pc = "analysed"
    /\ failure \in {Some(c.failure) : c \in ScoreContexts}
    /\ tasks = <<>>
    /\ futures = <<>>
    /\ yielded = {}
    /\ completed_tasks = <<>>
    /\ context \in {Some(c) : c \in ScoreContexts}
    /\ context.v.failure = failure.v
    /\ clock = 0
    /\ exc = ""
    /\ analysis = None
    /\ llm_calls = 0
    /\ invoked = [n \in ProbeNameSet |-> 0]
    /\ result = None

NextScore == Return

SpecScore == InitScore /\ [][NextScore]_vars

\* ------------------------------------------------------------------------
\* The parser and the planner on messages of the notification formats
\* ------------------------------------------------------------------------

\* the cross mark U+274C that opens an Airflow notification: the element
\* that stands for it in a text
CrossMark == "CROSS"

\* an Airflow task-failure notification
T_scenario_a ==
    <<CrossMark," ","T","a","s","k"," ","h","a","s"," ","f","a","i","l","e","d",".",
      ".","."," ","D","A","G",":"," ","e","t","l","_","o","r","d","e","r","s","\n",
      "T","a","s","k",":"," ","l","o","a","d","_","d","a","t","a","\n","E","x","e",
      "c","u","t","i","o","n"," ","T","i","m","e",":"," ","2","0","2","4","-","0","1",
      "-","0","1","T","0","0",":","0","0",":","0","0","\n","E","x","c","e","p","t",
      "i","o","n",":"," ","A","i","r","f","l","o","w","S","e","n","s","o","r","T","i",
      "m","e","o","u","t"," ",".",".","."," ","t","i","m","e","o","u","t"," ","o","f",
      " ","2","4","0","0",".","0","\n","L","o","g"," ","U","R","L",":"," ","[","h",
      "t","t","p",":","/","/","x","/","l","o","g","]">>

\* a dbt failure: the DAG line and the Cosmos error, on two lines in either
\* order and on one line
ScenarioBTexts ==
    LET dag == <<"D","A","G"," ","s","a","l","e","s","_","d","b","t"," ","f","a","i","l","e","d">>
        err == <<"C","o","s","m","o","s","D","b","t","R","u","n","E","r","r","o","r"," ","D","a","t","a","b","a","s","e"," ",
                 "E","r","r","o","r"," ","i","n"," ","m","o","d","e","l"," ","d","i","m","_","c","u","s","t","o","m","e","r","s">>
    IN  {dag \o <<"\n">> \o err, err \o <<"\n">> \o dag, dag \o <<" ">> \o err}

\* messages that name a DAG in up to three ways, with different ids, in
\* three orders
DagTexts ==
    LET first == {<<>>, T_dag_failed,
                  <<"D","A","G"," ","e","t","l","_","o","r","d","e","r","s"," ","e","r","r","o","r">>}
        second == {<<>>, <<"T","a","s","k"," ","l","o","a","d"," ","i","n"," ","D","A","G"," ","s","a","l","e","s">>}
        third == {<<>>, <<"d","a","g",":"," ","o","t","h","e","r">>,
                  <<"d","a","g"," ","o","t","h","e","r">>}
        nl == <<"\n">>
    IN  UNION {{a \o nl \o b \o nl \o c, c \o nl \o b \o nl \o a, b \o nl \o c \o nl \o a} :
                   <<a, b, c>> \in first \X second \X third}

\* one word of each error category
CategoryWords == <<W_timeout, W_network, W_memory, W_permission, W_sql, W_dbt, W_import, W_disk>>

\* messages with the words of no, one or two error categories, in both orders
TypeTexts ==
    LET words == {<<>>} \cup {CategoryWords[k] : k \in 1..Len(CategoryWords)}
    IN  {W_task \o <<" ">> \o a \o <<" ">> \o b : a \in words, b \in words}

ParseEvents ==
    {[has_event |-> TRUE, bot_id |-> FALSE, text |-> t, channel |-> "C1", thread_ts |-> None] :
        t \in {T_scenario_a, T_pipeline} \cup ScenarioBTexts \cup DagTexts \cup TypeTexts}

InitParse ==
    /\ LambdaAtStart({<<>>}, "idle")
    /\ ServicesAtStart({None}, {None})
    /\ event \in ParseEvents
    /\ max_workers = DefaultMaxWorkers
    /\ pc = "received"
    /\ failure = None
    /\ tasks = <<>>
    /\ futures = <<>>
    /\ yielded = {}
    /\ completed_tasks = <<>>
    /\ context = None
    /\ clock = 0
    /\ exc = ""
    /\ analysis = None
    /\ llm_calls = 0
    /\ invoked = [n \in ProbeNameSet |-> 0]
    /\ result = None

SpecParse == InitParse /\ [][NextPlan]_vars

\* ------------------------------------------------------------------------
\* lambda_handler, step by step
\* ------------------------------------------------------------------------

\* the events lambda_handler is invoked with: the keys the event has and its
\* parsed_data, which has all of its keys, none, or lacks the dag id; the
\* exception text does or does not mention dbt and the task id does or does
\* not mention lambda
LambdaEvents ==
    LET all == {"channel", "thread_ts", "message_ts", "parsed_data", "raw_message"}
        fields == {"dag_id", "task_id", "execution_time", "exception", "log_url"}
    IN  {[keys |-> ks, parsed_data |-> [keys |-> pk, exception |-> e, task_id |-> t]] :
            ks \in {all, all \ {"message_ts"}, all \ {"channel"}, all \ {"parsed_data"}},
            pk \in {fields, fields \ {"dag_id"}, fields \ {"exception"}, {}},
            e \in {<<"T","e","s","t">>, <<"D","B","T"," ","r","u","n">>},
            t \in {<<"t","1">>, <<"x",".","L","a","m","b","d","a","_","f","n">>}}

\* a variant of get_credentials that returns empty tokens instead of raising
get_credentials_no_raise(secrets_ok) ==
    IF secrets_ok THEN Some(<<"bot_token", "api_key">>) ELSE Some(<<"", "">>)

\* get_credentials, lines 184-198: the two tokens, or None for the exception
\* it logs and raises again when a secret cannot be read
get_credentials(secrets_ok) ==
    IF secrets_ok THEN Some(<<"bot_token", "api_key">>) ELSE None

\* DiagnosticOrchestrator.gather_diagnostics, lines 102-170, on parsed_data
\* pd; o gives what each probe does when called: it returns data, returns
\* nothing, raises DiagnosticError or raises another exception.  The clause
\* of line 118 catches DiagnosticError only, those of lines 131, 147 and 161
\* every exception; a key parsed_data lacks raises KeyError.  m is
\* self.metrics: add_metric follows a probe's return.
gather_diagnostics(pd, o) ==
    LET Has(k) == k \in pd.keys
        Failed(outcome) == outcome \in {"DiagnosticError", "Exception"}
        Slot(g, slot, label, metric, outcome) ==
            IF Failed(outcome)
            THEN [g EXCEPT !.d.errors = Append(@, label)]
            ELSE [g EXCEPT !.d[slot] = IF outcome = "data" THEN Some("data") ELSE None,
                           !.m = Append(@, metric)]
        g0 == [d |-> [mwaa_logs |-> None, dag_status |-> None, redshift_audit |-> None,
                      cloudwatch_errors |-> None, errors |-> <<>>],
               m |-> <<>>]
        s1 == Slot(g0, "mwaa_logs", "MWAA logs", "MWAALogsFetched", o.mwaa_logs)
        g1 == IF Failed(o.mwaa_logs) THEN [s1 EXCEPT !.m = Append(@, "MWAALogsFailed")] ELSE s1
        dag_args == Has("dag_id") /\ Has("execution_time")
        g2 == IF dag_args
              THEN Slot(g1, "dag_status", "DAG status", "DAGStatusFetched", o.dag_status)
              ELSE [g1 EXCEPT !.d.errors = Append(@, "DAG status")]
        dbt == Contains(Lower(pd.exception), W_dbt)
        g3 == IF dbt
              THEN Slot(g2, "redshift_audit", "Redshift audit", "RedshiftAuditFetched",
                        o.redshift_audit)
              ELSE g2
        lambda == Contains(Lower(pd.task_id), <<"l","a","m","b","d","a">>)
        g4 == IF lambda
              THEN Slot(g3, "cloudwatch_errors", "CloudWatch", "CloudWatchLogsFetched",
                        o.cloudwatch_errors)
              ELSE g3
        c1 == {"get_mwaa_task_logs"}
        c2 == c1 \cup (IF dag_args THEN {"get_dag_run_status"} ELSE {})
        c3 == c2 \cup (IF dbt THEN {"query_redshift_audit_logs"} ELSE {})
        c4 == c3 \cup (IF lambda THEN {"get_cloudwatch_lambda_errors"} ELSE {})
        Raise(e, called, m) ==
            [raised |-> e, diagnostics |-> None, called |-> called, metrics |-> m]
    IN  IF ~Has("log_url")
        THEN Raise("KeyError", {}, <<>>)
        ELSE IF o.mwaa_logs = "Exception"
        THEN Raise("Exception", c1, <<>>)
        ELSE IF ~Has("exception")
        THEN Raise("KeyError", c2, g2.m)
        ELSE IF ~Has("task_id")
        THEN Raise("KeyError", c3, g3.m)
        ELSE [raised |-> "", diagnostics |-> Some(g4.d), called |-> c4,
              metrics |-> Append(g4.m, "DiagnosticTime")]

\* a variant of post_to_slack without the clause  except Exception
post_to_slack_api_errors_only(outcome) ==
    [raised |-> outcome = "Exception", value |-> outcome = "ok"]

\* post_to_slack, lines 253-280: True when chat_postMessage returned, False
\* when it raised SlackApiError or another exception
post_to_slack(outcome) ==
    [raised |-> FALSE, value |-> outcome = "ok"]

\* lines 297-305: the four keys are read from the event and get_credentials
\* is called; a missing key or the exception of get_credentials enters the
\* except clause of line 356
LambdaStart(secrets_ok) ==
    /\ lambda_pc = "start"
    /\ IF ~({"channel", "thread_ts", "parsed_data", "raw_message"} \subseteq lambda_event.keys)
       THEN /\ lambda_exc' = "KeyError"
            /\ lambda_pc' = "except"
            /\ UNCHANGED credential_calls
       ELSE /\ credential_calls' = Append(credential_calls, secrets_ok)
            /\ IF get_credentials(secrets_ok) = None
               THEN lambda_exc' = "credentials error" /\ lambda_pc' = "except"
               ELSE lambda_pc' = "gather" /\ UNCHANGED lambda_exc
    /\ UNCHANGED <<lambda_event, calls, diagnostics, lambda_analysis, posts, metrics,
                   published, response>>
    /\ UNCHANGED <<diagnose_vars, service_vars>>

\* lines 309-315: the message is classified and the diagnostics are gathered
GatherDiagnostics(o) ==
    /\ lambda_pc = "gather"
    /\ LET g == gather_diagnostics(lambda_event.parsed_data, o)
       IN  /\ calls' = [f \in LambdaCallees |->
                           IF f = "gather_diagnostics" \/ f \in g.called
                           THEN calls[f] + 1 ELSE calls[f]]
           /\ metrics' = metrics \o g.metrics
           /\ IF g.raised # ""
              THEN /\ lambda_exc' = g.raised
                   /\ lambda_pc' = "except"
                   /\ UNCHANGED diagnostics
              ELSE /\ diagnostics' = g.diagnostics
                   /\ lambda_pc' = "llm"
                   /\ UNCHANGED lambda_exc
    /\ UNCHANGED <<lambda_event, credential_calls, lambda_analysis, posts, published,
                   response>>
    /\ UNCHANGED <<diagnose_vars, service_vars>>

\* lines 318-327 and invoke_llm, lines 201-250: the LLM's text, or the
\* fallback text of lines 242-250 when anything in invoke_llm raised
InvokeLlm(ok) ==
    /\ lambda_pc = "llm"
    /\ calls' = [calls EXCEPT !["invoke_llm"] = @ + 1]
    /\ lambda_analysis' = Some(IF ok THEN "analysis" ELSE "fallback")
    /\ lambda_pc' = "post"
    /\ UNCHANGED <<lambda_event, lambda_exc, credential_calls, diagnostics, posts, metrics,
                   published, response>>
    /\ UNCHANGED <<diagnose_vars, service_vars>>

\* line 330: the analysis is posted to the thread
PostAnalysis(outcome) ==
    /\ lambda_pc = "post"
    /\ posts' = Append(posts, [message |-> lambda_analysis.v, outcome |-> outcome,
                               returned |-> post_to_slack(outcome)])
    /\ IF post_to_slack(outcome).raised
       THEN lambda_exc' = outcome /\ lambda_pc' = "except"
       ELSE lambda_pc' = "posted" /\ UNCHANGED lambda_exc
    /\ UNCHANGED <<lambda_event, credential_calls, calls, diagnostics, lambda_analysis,
                   metrics, published, response>>
    /\ UNCHANGED <<diagnose_vars, service_vars>>

\* a variant of publish_metrics without its try
publish_metrics_uncaught(put_ok) == [raised |-> ~put_ok]

\* DiagnosticOrchestrator.publish_metrics, lines 172-181: one call of
\* put_metric_data with self.metrics, its exception caught and logged
publish_metrics(put_ok) == [raised |-> FALSE]

\* lines 333-354: the reaction is added with its exceptions swallowed (a
\* missing message_ts among them), the last two metrics are added, the
\* metrics are published and the response is returned; its processing_time
\* and error_type are left out
Respond(put_ok) ==
    /\ lambda_pc = "posted"
    /\ LET success == posts[Len(posts)].returned.value
           all == metrics \o <<"ProcessingTime", IF success THEN "Success" ELSE "Failure">>
       IN  /\ metrics' = all
           /\ published' = Append(published, [MetricData |-> all, ok |-> put_ok])
           /\ IF publish_metrics(put_ok).raised
              THEN /\ lambda_exc' = "Exception"
                   /\ lambda_pc' = "except"
                   /\ UNCHANGED response
              ELSE /\ response' = Some([statusCode |-> IF success THEN 200 ELSE 500,
                                        success |-> success, error |-> ""])
                   /\ lambda_pc' = "returned"
                   /\ UNCHANGED lambda_exc
    /\ UNCHANGED <<lambda_event, credential_calls, calls, diagnostics, lambda_analysis, posts>>
    /\ UNCHANGED <<diagnose_vars, service_vars>>

\* a variant of NoticeCredentialCalls that asks for the credentials twice
NoticeCredentialCallsTwice(ev) ==
    IF "channel" \in ev.keys /\ "thread_ts" \in ev.keys THEN 2 ELSE 0

\* lines 361-362: the calls of get_credentials in the except clause
NoticeCredentialCalls(ev) ==
    IF "channel" \in ev.keys /\ "thread_ts" \in ev.keys THEN 1 ELSE 0

\* lines 356-380, the except clause: when the event has channel and
\* thread_ts the credentials are fetched and an error notice is posted, any
\* exception of this being swallowed; the response has status 500 and the
\* text of the exception
HandleException(secrets_ok, outcome) ==
    /\ lambda_pc = "except"
    /\ LET n == NoticeCredentialCalls(lambda_event)
       IN  /\ credential_calls' = credential_calls \o [k \in 1..n |-> secrets_ok]
           /\ posts' = IF n > 0 /\ get_credentials(secrets_ok) # None
                       THEN Append(posts, [message |-> "error notice", outcome |-> outcome,
                                           returned |-> post_to_slack(outcome)])
                       ELSE posts
    /\ response' = Some([statusCode |-> 500, success |-> FALSE, error |-> lambda_exc])
    /\ lambda_pc' = "returned"
    /\ UNCHANGED <<lambda_event, lambda_exc, calls, diagnostics, lambda_analysis, metrics,
                   published>>
    /\ UNCHANGED <<diagnose_vars, service_vars>>

InitLambda ==
    /\ LambdaAtStart(LambdaEvents, "start")
    /\ ServicesAtStart({None}, {None})
    /\ event = [has_event |-> FALSE]
    /\ max_workers = DefaultMaxWorkers
    /\ pc = "received"
    /\ failure = None
    /\ tasks = <<>>
    /\ futures = <<>>
    /\ yielded = {}
    /\ completed_tasks = <<>>
    /\ context = None
    /\ clock = 0
    /\ exc = ""
    /\ analysis = None
    /\ llm_calls = 0
    /\ invoked = [n \in ProbeNameSet |-> 0]
    /\ result = None

NextLambda ==
    \/ \E secrets_ok \in BOOLEAN : LambdaStart(secrets_ok)
    \/ \E o \in [{"mwaa_logs", "dag_status", "redshift_audit", "cloudwatch_errors"} ->
                    {"data", "nothing", "DiagnosticError", "Exception"}] : GatherDiagnostics(o)
    \/ \E ok \in BOOLEAN : InvokeLlm(ok)
    \/ \E outcome \in {"ok", "SlackApiError", "Exception"} : PostAnalysis(outcome)
    \/ \E put_ok \in BOOLEAN : Respond(put_ok)
    \/ \E secrets_ok \in BOOLEAN :
           \E outcome \in {"ok", "SlackApiError", "Exception"} :
               HandleException(secrets_ok, outcome)

SpecLambda == InitLambda /\ [][NextLambda]_vars

\* ------------------------------------------------------------------------
\* tools.py: the functions that query Redshift, MWAA and CloudWatch Logs
\* ------------------------------------------------------------------------

\* get_cloudwatch_lambda_errors: max_wait
max_wait == 10

\* get_cloudwatch_lambda_errors: the length a message is cut to
MessageLimit == 500

\* A call ends by returning a value or by raising; requests counts the
\* requests made to the service the function waits for.
\*
\* get_redshift_recent_errors: the query is written inside the handler of
\* the first except clause, so it runs only when the secret lookup raised;
\* an exception raised there is not caught by the second except clause of
\* the same try statement
get_redshift_recent_errors(c) ==
    IF c.secret = "ok"
    THEN [raised |-> FALSE, value |-> None, requests |-> 0]
    ELSE IF c.query = "ok"
         THEN [raised |-> FALSE, value |-> Some(c.records), requests |-> 1]
         ELSE [raised |-> TRUE, value |-> None, requests |-> 1]

\* get_mwaa_task_logs. The text of a 200 response is returned as c.text: the
\* extraction of the <pre> element, the replacement of the HTML entities
\* and the cut to the last 50000 characters are not modelled.
get_mwaa_task_logs(c) ==
    LET url == c.log_url
        Returns(v, n) == [raised |-> FALSE, value |-> v, requests |-> n]
        \* urlparse(log_url).hostname is None when nothing stands between
        \* "//" and the next "/"
        no_hostname == MatchAt(url, 1, <<"h","t","t","p",":","/","/","/">>)
        Fetched(answer, n) ==
            IF answer = "200" THEN Returns(Some(c.text), n) ELSE Returns(None, n)
    IN  IF url = <<>> \/ ~MatchAt(url, 1, <<"h","t","t","p">>)
        THEN Returns(None, 0)
        ELSE IF no_hostname
        THEN Returns(None, 0)
        ELSE IF c.environment = "AVAILABLE" /\ c.authenticated # "raise"
        THEN Fetched(c.authenticated, 1)
        ELSE Fetched(c.direct, IF c.environment = "AVAILABLE" THEN 2 ELSE 1)

\* a loop that asks once more: while wait_time <= max_wait
RECURSIVE PollQueryOneMore(_, _)
PollQueryOneMore(answers, wait_time) ==
    IF wait_time > max_wait
    THEN [ended |-> "exhausted", polls |-> wait_time]
    ELSE LET status == answers[wait_time + 1]
         IN  IF status = "Complete"
             THEN [ended |-> "Complete", polls |-> wait_time + 1]
             ELSE IF status = "Failed"
             THEN [ended |-> "DiagnosticError", polls |-> wait_time + 1]
             ELSE IF status = "raise"
             THEN [ended |-> "Exception", polls |-> wait_time + 1]
             ELSE PollQueryOneMore(answers, wait_time + 1)

\* get_cloudwatch_lambda_errors: the loop that waits for the query; answers
\* are the answers of get_query_results, in order
RECURSIVE PollQuery(_, _)
PollQuery(answers, wait_time) ==
    IF wait_time >= max_wait
    THEN [ended |-> "exhausted", polls |-> wait_time]
    ELSE LET status == answers[wait_time + 1]
         IN  IF status = "Complete"
             THEN [ended |-> "Complete", polls |-> wait_time + 1]
             ELSE IF status = "Failed"
             THEN [ended |-> "DiagnosticError", polls |-> wait_time + 1]
             ELSE IF status = "raise"
             THEN [ended |-> "Exception", polls |-> wait_time + 1]
             ELSE PollQuery(answers, wait_time + 1)

\* a text is modelled by a name and its length
get_cloudwatch_lambda_errors(c) ==
    LET Returns(v, n) == [raised |-> FALSE, value |-> Some(v), requests |-> n]
        p == PollQuery(c.answers, 0)
        Message(row) ==
            LET at == {k \in 1..Len(row) : row[k].field = "@message"}
            IN  IF at = {} THEN None
                ELSE Some(row[CHOOSE k \in at : \A j \in at : k <= j].value)
        HasMessage(row) == Message(row) # None /\ Message(row).v.len > 0
        Cut(m) == IF m.len > MessageLimit
                  THEN [text |-> m.text, len |-> MessageLimit + Len("... [truncated]")]
                  ELSE m
        with_message == SelectSeq(c.results, HasMessage)
        error_messages ==
            [i \in 1..Len(with_message) |-> Cut(Message(with_message[i]).v)]
    IN  IF c.start = "raise"
        THEN Returns(<<>>, 0)
        ELSE IF p.ended # "Complete"
        THEN Returns(<<>>, p.polls)
        ELSE Returns(error_messages, p.polls)

\* the calls made: each function with every combination of what its
\* services answer
ToolCalls ==
    LET rows == <<[error_message |-> "e1"], [error_message |-> "e2"]>>
        ts == [field |-> "@timestamp", value |-> [text |-> "ts", len |-> 19]]
        msg(n, l) == [field |-> "@message", value |-> [text |-> n, len |-> l]]
        Answers(k, last) ==
            [i \in 1..(max_wait + 1) |->
                IF i <= k THEN "Running" ELSE IF i = k + 1 THEN last ELSE "Scheduled"]
    IN  {[function |-> "get_redshift_recent_errors",
          secret |-> s, query |-> q, records |-> r] :
             s \in {"ok", "raise"}, q \in {"ok", "raise"}, r \in {<<>>, rows}}
        \cup
        {[function |-> "get_mwaa_task_logs", log_url |-> u, environment |-> e,
          authenticated |-> a, direct |-> d, text |-> "log"] :
             u \in {<<>>,
                    <<"s","3",":","/","/","b","/","l">>,
                    <<"h","t","t","p",":","/","/","/","l">>,
                    <<"h","t","t","p","s",":","/","/","e",".","x","/","l">>},
             e \in {"AVAILABLE", "UPDATING", "raise"},
             a \in {"200", "404", "raise"},
             d \in {"200", "404", "raise"}}
        \cup
        {[function |-> "get_cloudwatch_lambda_errors", start |-> s,
          answers |-> Answers(k, last), results |-> r] :
             s \in {"ok", "raise"},
             k \in 0..max_wait,
             last \in {"Complete", "Failed", "raise", "Running"},
             r \in {<<>>,
                    << <<ts, msg("m1", 40)>> >>,
                    << <<ts>>, <<msg("m2", MessageLimit + 1), ts>>, <<msg("m3", 0)>>,
                       <<ts, msg("m4", MessageLimit)>> >>}}

\* the called function runs to its end
ToolReturn ==
    /\ tool_call # None
    /\ tool_result = None
    /\ LET c == tool_call.v
       IN  tool_result' =
               Some(IF c.function = "get_redshift_recent_errors"
                    THEN get_redshift_recent_errors(c)
                    ELSE IF c.function = "get_mwaa_task_logs"
                    THEN get_mwaa_task_logs(c)
                    ELSE get_cloudwatch_lambda_errors(c))
    /\ UNCHANGED <<tool_call, message, listener_pc, reactions, invocations>>
    /\ UNCHANGED <<diagnose_vars, lambda_vars>>

InitTools ==
    /\ LambdaAtStart({<<>>}, "idle")
    /\ ServicesAtStart({Some(c) : c \in ToolCalls}, {None})
    /\ event = [has_event |-> FALSE]
    /\ max_workers = DefaultMaxWorkers
    /\ pc = "received"
    /\ failure = None
    /\ tasks = <<>>
    /\ futures = <<>>
    /\ yielded = {}
    /\ completed_tasks = <<>>
    /\ context = None
    /\ clock = 0
    /\ exc = ""
    /\ analysis = None
    /\ llm_calls = 0
    /\ invoked = [n \in ProbeNameSet |-> 0]
    /\ result = None

SpecTools == InitTools /\ [][ToolReturn]_vars

\* ------------------------------------------------------------------------
\* app.py: the Slack listener
\* ------------------------------------------------------------------------

\* AIRFLOW_FAILURE_PATTERN, compiled with re.DOTALL: its literal parts, in
\* order; between two of them stands .*? or a group (.*?), which match any
\* characters, line ends included
AIRFLOW_FAILURE_PATTERN ==
    LET nl == <<"\n">>
    IN  << <<CrossMark," ","T","a","s","k"," ","h","a","s"," ","f","a","i","l","e","d",".">>,
           <<"D","A","G",":"," ">>, nl,
           <<"T","a","s","k",":"," ">>, nl,
           <<"E","x","e","c","u","t","i","o","n"," ","T","i","m","e",":"," ">>, nl,
           <<"E","x","c","e","p","t","i","o","n",":"," ">>, nl,
           <<"L","o","g"," ","U","R","L",":"," ","[">>,
           <<"]">> >>

\* the literals ws[k], ws[k+1], ... occur in s in this order, without
\* overlap, at or after position i
RECURSIVE SearchFrom(_, _, _, _)
SearchFrom(s, i, ws, k) ==
    IF k > Len(ws) THEN TRUE
    ELSE LET at == {j \in i..(Len(s) + 1) : MatchAt(s, j, ws[k])}
         IN  /\ at # {}
             /\ SearchFrom(s, (CHOOSE j \in at : \A h \in at : j <= h) + Len(ws[k]), ws, k + 1)

\* the messages the listener receives; keys are the keys of the event
\* among channel and ts
ListenerMessages ==
    LET no_period == SubSeq(T_scenario_a, 1, 17) \o <<"!">>
                         \o SubSeq(T_scenario_a, 19, Len(T_scenario_a))
        no_log_url == SubSeq(T_scenario_a, 1, 60)
    IN  {[bot_id |-> b, username |-> u, text |-> t, keys |-> ks] :
            b \in BOOLEAN,
            u \in {"Apache Airflow", "someone", "absent"},
            t \in {T_scenario_a, no_period, no_log_url, T_lunch},
            ks \in SUBSET {"channel", "ts"}}

\* handle_message_events, to the call of client.reactions_add: the four
\* filters and the diagnostic request, whose construction reads
\* event['channel'] and event['ts']
FilterMessage ==
    /\ message # None
    /\ listener_pc = "start"
    /\ LET m == message.v
           marker == SubSeq(AIRFLOW_FAILURE_PATTERN[1], 1, 17)
       IN  listener_pc' =
               IF \/ m.bot_id
                  \/ m.username # "Apache Airflow"
                  \/ ~Contains(m.text, marker)
                  \/ ~SearchFrom(m.text, 1, AIRFLOW_FAILURE_PATTERN, 1)
               THEN "returned"
               ELSE IF {"channel", "ts"} \subseteq m.keys
               THEN "acknowledging"
               ELSE "caught"
    /\ UNCHANGED <<tool_call, tool_result, message, reactions, invocations>>
    /\ UNCHANGED <<diagnose_vars, lambda_vars>>

\* a handler that goes on to the invocation when client.reactions_add raised
AddReactionThenInvoke(ok) ==
    /\ listener_pc = "acknowledging"
    /\ reactions' = Append(reactions, [name |-> "eyes", ok |-> ok])
    /\ listener_pc' = "invoking"
    /\ UNCHANGED <<tool_call, tool_result, message, invocations>>
    /\ UNCHANGED <<diagnose_vars, lambda_vars>>

\* client.reactions_add; an exception it raises is caught by the handler's
\* except clause
AddReaction(ok) ==
    /\ listener_pc = "acknowledging"
    /\ reactions' = Append(reactions, [name |-> "eyes", ok |-> ok])
    /\ listener_pc' = IF ok THEN "invoking" ELSE "caught"
    /\ UNCHANGED <<tool_call, tool_result, message, invocations>>
    /\ UNCHANGED <<diagnose_vars, lambda_vars>>

\* invoke_diagnostic_lambda: one lambda_client.invoke; an exception it
\* raises is caught inside the function
invoke_diagnostic_lambda(ok) ==
    /\ listener_pc = "invoking"
    /\ invocations' = Append(invocations, [InvocationType |-> "Event",
                                            raw_message |-> message.v.text,
                                            ok |-> ok])
    /\ listener_pc' = "returned"
    /\ UNCHANGED <<tool_call, tool_result, message, reactions>>
    /\ UNCHANGED <<diagnose_vars, lambda_vars>>

InitListener ==
    /\ LambdaAtStart({<<>>}, "idle")
    /\ ServicesAtStart({None}, {Some(m) : m \in ListenerMessages})
    /\ event = [has_event |-> FALSE]
    /\ max_workers = DefaultMaxWorkers
    /\ pc = "received"
    /\ failure = None
    /\ tasks = <<>>
    /\ futures = <<>>
    /\ yielded = {}
    /\ completed_tasks = <<>>
    /\ context = None
    /\ clock = 0
    /\ exc = ""
    /\ analysis = None
    /\ llm_calls = 0
    /\ invoked = [n \in ProbeNameSet |-> 0]
    /\ result = None

NextListener ==
    \/ FilterMessage
    \/ \E ok \in BOOLEAN : AddReaction(ok)
    \/ \E ok \in BOOLEAN : invoke_diagnostic_lambda(ok)

SpecListener == InitListener /\ [][NextListener]_vars

\* ------------------------------------------------------------------------
\* Properties
\* ------------------------------------------------------------------------

NameSet(ts) == {ts[i].name : i \in 1..Len(ts)}

SeqSet(q) == {q[i] : i \in 1..Len(q)}

Returned == {i \in 1..Len(futures) : futures[i].kind = "return"}

Raised == {i \in 1..Len(futures) : futures[i].kind = "raise"}

Outstanding == (1..Len(futures)) \ yielded

\* the context slot a probe writes to
SlotOf(ctx, name) ==
    CASE name = "dag_state" -> ctx.dag_state
      [] name = "mwaa_logs" -> ctx.mwaa_logs
      [] name \in {"redshift_audit", "redshift_errors"} -> ctx.redshift_audit
      [] name = "cloudwatch_errors" -> ctx.cloudwatch_errors

\* the call of diagnose_failure has ended on an event that passed the gate
EndedAfterGate == pc \in Terminal /\ failure # None

\* every probe has returned or raised, and did so before the deadline
AllInTime ==
    \A i \in 1..Len(futures) :
        /\ futures[i].state = "done"
        /\ futures[i].finished_at < timeout_seconds

\* the collection has returned its context
Collected == pc \in {"collected", "analysed", "done"}

IsFraction(c) == c[2] > 0 /\ 0 <= c[1] /\ c[1] <= c[2]

\* C1: when the global deadline elapses while probes are outstanding, the
\* diagnosis still ends with a non-null DiagnosticResult whose context leaves
\* the outstanding probes' slots unset and their names out of completed_tasks
C1_DeadlineStillReturnsResult ==
    (EndedAfterGate /\ Outstanding # {}) =>
        /\ pc = "done"
        /\ result # None
        /\ \A i \in Outstanding :
            /\ tasks[i].name \notin
                   SeqSet(result.v.context.context_metadata["completed_tasks"])
            /\ tasks[i].name \in {"dag_state", "mwaa_logs", "cloudwatch_errors"}
                   => SlotOf(result.v.context, tasks[i].name) = None

\* what the redshift_audit slot holds after a collection in which every
\* probe was handed over: nothing when neither redshift probe returned, the
\* one result when one returned, and when both returned the audit rows,
\* followed or not by the error rows
RedshiftSlotAsWritten(ctx) ==
    LET a == {i \in Returned : tasks[i].name = "redshift_audit"}
        e == {i \in Returned : tasks[i].name = "redshift_errors"}
        rows(i) == IF futures[i].value = None THEN <<>> ELSE futures[i].value.v
    IN  /\ (a = {} /\ e = {}) => ctx.redshift_audit = None
        /\ (a # {} /\ e = {}) => \A i \in a : ctx.redshift_audit = futures[i].value
        /\ (a = {} /\ e # {}) => \A i \in e : ctx.redshift_audit = Some(rows(i))
        /\ (a # {} /\ e # {}) =>
               \A i \in a : \A j \in e :
                   ctx.redshift_audit \in {Some(rows(i)), Some(rows(i) \o rows(j))}

\* the part of C2 that does not speak of a raising probe's slot
BatchSurvives(ctx) ==
    /\ \A i \in Returned :
           tasks[i].name \in {"dag_state", "mwaa_logs", "cloudwatch_errors"}
               => SlotOf(ctx, tasks[i].name) = futures[i].value
    /\ \A i \in Returned :
           tasks[i].name \in {"redshift_audit", "redshift_errors"}
               => SlotOf(ctx, tasks[i].name) # None
    /\ SeqSet(ctx.context_metadata["completed_tasks"]) = {tasks[i].name : i \in Returned}
    /\ Len(ctx.context_metadata["completed_tasks"]) = Cardinality(Returned)
    /\ ctx.context_metadata["total_tasks"] = Len(tasks)
    /\ \A i \in Raised :
        /\ ErrorKey(tasks[i].name) \in DOMAIN ctx.context_metadata
        /\ ctx.context_metadata[ErrorKey(tasks[i].name)] = futures[i].error

C3_SlowProbeTreatedAsFailed ==
    \A i \in yielded :
        (/\ futures[i].finished_at - futures[i].started_at > ResultTimeout
         /\ futures[i].finished_at < timeout_seconds)
        => /\ tasks[i].name \notin SeqSet(completed_tasks)
           /\ ErrorKey(tasks[i].name) \in DOMAIN context.v.context_metadata
           /\ tasks[i].name \in {"dag_state", "mwaa_logs", "cloudwatch_errors"}
                  => SlotOf(context.v, tasks[i].name) = None

\* C4: when the redshift_audit and the redshift_errors probes both return
\* lists, the redshift_audit slot holds the entries of both, whichever was
\* applied first
C4_RedshiftSlotHoldsBothResults ==
    Collected =>
        \A i \in Returned : \A j \in Returned :
            (/\ tasks[i].name = "redshift_audit"
             /\ tasks[j].name = "redshift_errors"
             /\ IsList(futures[i].value)
             /\ IsList(futures[j].value))
            => /\ context.v.redshift_audit # None
               /\ SeqSet(context.v.redshift_audit.v)
                      = SeqSet(futures[i].value.v) \cup SeqSet(futures[j].value.v)
               /\ Len(context.v.redshift_audit.v)
                      = Len(futures[i].value.v) + Len(futures[j].value.v)

\* C5: when the event passes the gate and every probe finishes before the
\* deadline, diagnose_failure returns a non-null result with the collected
\* context and a confidence score, however many probes raised and whether or
\* not the analysis failed
C5_ResultNeverNull ==
    (EndedAfterGate /\ AllInTime) =>
        /\ pc = "done"
        /\ result # None
        /\ result.v.context = context.v
        /\ IsFraction(result.v.confidence_score)
        /\ result.v.analysis = analysis

\* every probe raised and the analysis failed, and a result was returned
C5_Witness ==
    /\ pc = "done"
    /\ AllInTime
    /\ Len(tasks) >= 2
    /\ Raised = 1..Len(tasks)
    /\ analysis = None
    /\ llm_calls = 1
    /\ result # None

IndicatorWords ==
    {W_dag, W_task, W_airflow, W_failed, W_error, W_exception, W_workflow,
     W_pipeline, W_etl}

NoIndicatorWord(text) == \A w \in IndicatorWords : ~Contains(Lower(text), w)

\* C6: an event whose text is empty or holds no indicator word is rejected:
\* the call returns null without creating a context, running a probe or
\* calling the LLM
C6_RejectedWithoutWork ==
    (event.text = <<>> \/ NoIndicatorWord(event.text)) =>
        /\ pc \in {"received", "rejected"}
        /\ failure = None
        /\ result = None
        /\ context = None
        /\ tasks = <<>>
        /\ \A n \in ProbeNameSet : invoked[n] = 0
        /\ llm_calls = 0

\* a message without indicator words was rejected
C6_Witness ==
    /\ pc = "rejected"
    /\ event.has_event
    /\ ~event.bot_id
    /\ event.text = T_lunch
    /\ result = None

\* C9: when the plan has no redshift probes or no cloudwatch probe, that
\* category's slot is never populated and the confidence score is below 1
C9_UnplannedCategoryCapsScore ==
    pc = "done" =>
        LET names == NameSet(tasks)
            c == result.v.confidence_score
        IN  /\ names \cap {"redshift_audit", "redshift_errors"} = {} =>
                /\ result.v.context.redshift_audit = None
                /\ c[1] < c[2]
            /\ "cloudwatch_errors" \notin names =>
                /\ result.v.context.cloudwatch_errors = None
                /\ c[1] < c[2]

\* no redshift probes planned, everything else earned: the score is 0.8
C9_Witness ==
    /\ pc = "done"
    /\ NameSet(tasks) = {"dag_state", "mwaa_logs", "cloudwatch_errors"}
    /\ Returned = 1..Len(tasks)
    /\ Truthy(result.v.context.mwaa_logs)
    /\ Truthy(result.v.context.cloudwatch_errors)
    /\ result.v.context.redshift_audit = None
    /\ result.v.confidence_score[1] * 100 = 80 * result.v.confidence_score[2]

\* the decision table of the probes
PlanTable(f) ==
    {"dag_state"}
    \cup (IF f.log_url # None \/ f.task_id # None THEN {"mwaa_logs"} ELSE {})
    \cup (IF f.error_type \in {"sql", "dbt"}
             \/ \E i \in 1..Len(f.error_message) :
                    /\ i + 2 <= Len(f.error_message)
                    /\ f.error_message[i] \in {"d", "D"}
                    /\ f.error_message[i + 1] \in {"b", "B"}
                    /\ f.error_message[i + 2] \in {"t", "T"}
          THEN {"redshift_audit", "redshift_errors"} ELSE {})
    \cup (IF f.error_type \in {"timeout", "connection", "python"}
          THEN {"cloudwatch_errors"} ELSE {})

\* C10: the plan's probe names are those of the decision table, a function
\* of the failure alone; mwaa_logs is fetched directly when log_url is
\* present and looked up otherwise; a dbt failure gets no cloudwatch probe
C10_PlanIsDecisionTable ==
    pc = "collecting" =>
        /\ NameSet(tasks) = PlanTable(failure.v)
        /\ Len(tasks) = Cardinality(NameSet(tasks))
        /\ \A i \in 1..Len(tasks) :
               tasks[i].name = "mwaa_logs" =>
                   tasks[i].function = IF failure.v.log_url # None
                                       THEN "get_mwaa_task_logs"
                                       ELSE "_get_recent_task_logs"
        /\ failure.v.error_type = "dbt" => "cloudwatch_errors" \notin NameSet(tasks)

\* a dbt failure with a task id: logs and redshift probes, no cloudwatch
C10_Witness ==
    /\ pc = "collecting"
    /\ failure.v.error_type = "dbt"
    /\ failure.v.log_url = None
    /\ failure.v.task_id # None
    /\ NameSet(tasks) = {"dag_state", "mwaa_logs", "redshift_audit", "redshift_errors"}

\* the weighted sum of the score as a fraction, given which of mwaa_logs and
\* dag_state count
WeightedSum(ctx, logs_count, state_counts) ==
    LET k == Len(ctx.context_metadata["completed_tasks"])
        n == ctx.context_metadata["total_tasks"]
        t == IF n = 0 THEN 1 ELSE n
        sum == ( (IF ctx.failure.dag_id # W_unknown_dag THEN 20 ELSE 0)
               + (IF logs_count THEN 30 ELSE IF state_counts THEN 15 ELSE 0)
               + (IF ctx.redshift_audit # None /\ Len(ctx.redshift_audit.v) > 0
                  THEN 20 ELSE 0)
               + (IF ctx.cloudwatch_errors # None /\ Len(ctx.cloudwatch_errors.v) > 0
                  THEN 20 ELSE 0) ) * t
               + (IF n = 0 THEN 0 ELSE 10 * k)
    IN  <<IF sum > 100 * t THEN 100 * t ELSE sum, 100 * t>>

SameFraction(a, b) == a[1] * b[2] = b[1] * a[2]

HasCounts(ctx) ==
    {"completed_tasks", "total_tasks"} \subseteq DOMAIN ctx.context_metadata

NonEmpty(o) == o # None /\ DOMAIN o.v # {}

\* C7: the confidence score is in [0,1] for every context
C7_ScoreInUnitInterval ==
    pc = "done" => IsFraction(result.v.confidence_score)

\* metadata without total_tasks, every slot filled: the sum exceeds the
\* denominator and the score is 1
C7_Witness ==
    /\ pc = "done"
    /\ "total_tasks" \notin DOMAIN context.v.context_metadata
    /\ "completed_tasks" \in DOMAIN context.v.context_metadata
    /\ Len(context.v.context_metadata["completed_tasks"]) = MaxTasks
    /\ context.v.failure.dag_id # W_unknown_dag
    /\ Truthy(context.v.mwaa_logs)
    /\ Truthy(context.v.redshift_audit)
    /\ Truthy(context.v.cloudwatch_errors)
    /\ result.v.confidence_score[1] = result.v.confidence_score[2]

\* C8 as stated: the score is the weighted sum in which mwaa_logs earns 0.3
\* when present and dag_state 0.15 when present
C8_ScoreIsWeightedSumOfPresent ==
    (pc = "done" /\ HasCounts(context.v)) =>
        SameFraction(result.v.confidence_score,
                     WeightedSum(context.v, context.v.mwaa_logs # None,
                                 context.v.dag_state # None))

\* C8, amended: the score is the weighted sum in which mwaa_logs earns 0.3
\* when present and non-empty, and otherwise dag_state 0.15 when present and
\* non-empty
C8_ScoreIsWeightedSumOfNonEmpty ==
    (pc = "done" /\ HasCounts(context.v)) =>
        SameFraction(result.v.confidence_score,
                     WeightedSum(context.v, NonEmpty(context.v.mwaa_logs),
                                 NonEmpty(context.v.dag_state)))

\* known dag, logs and dag state, no redshift or cloudwatch data, 2 of 3
\* completed: 0.2 + 0.3 + 0.1 * 2/3
C8_Witness ==
    /\ pc = "done"
    /\ HasCounts(context.v)
    /\ context.v.failure.dag_id # W_unknown_dag
    /\ NonEmpty(context.v.mwaa_logs)
    /\ NonEmpty(context.v.dag_state)
    /\ ~NonEmpty(context.v.redshift_audit)
    /\ ~NonEmpty(context.v.cloudwatch_errors)
    /\ Len(context.v.context_metadata["completed_tasks"]) = 2
    /\ context.v.context_metadata["total_tasks"] = 3
    /\ result.v.confidence_score = <<170, 300>>

\* the call has left the parser with a failure
Parsed == pc # "received" /\ failure # None

\* C11: the Airflow notification of scenario A is parsed into dag_id
\* 'etl_orders', task_id 'load_data', error_type 'timeout' and log_url
\* 'http://x/log'
C11_ScenarioAFields ==
    (pc # "received" /\ event.text = T_scenario_a) =>
        /\ failure # None
        /\ failure.v.dag_id = <<"e","t","l","_","o","r","d","e","r","s">>
        /\ failure.v.error_type = "timeout"
        /\ failure.v.task_id = Some(<<"l","o","a","d","_","d","a","t","a">>)
        /\ failure.v.log_url = Some(<<"h","t","t","p",":","/","/","x","/","l","o","g">>)

\* C12: a message with 'DAG sales_dbt failed' and the Cosmos dbt error is
\* classified dbt, and its plan has redshift_audit filtered by the model
\* 'dim_customers', redshift_errors, and no cloudwatch_errors
C12_ScenarioBPlan ==
    (pc = "collecting" /\ event.text \in ScenarioBTexts) =>
        /\ failure.v.error_type = "dbt"
        /\ \E i \in 1..Len(tasks) :
               /\ tasks[i].name = "redshift_audit"
               /\ tasks[i].args = <<<<"d","i","m","_","c","u","s","t","o","m","e","r","s">>>>
        /\ "redshift_errors" \in NameSet(tasks)
        /\ "cloudwatch_errors" \notin NameSet(tasks)

\* the id the cascade of C13 gives a text of DagTexts, from the phrases the
\* text contains
CascadeId(text) ==
    IF \/ Contains(text, T_dag_failed)
       \/ Contains(text, <<"D","A","G"," ","e","t","l","_","o","r","d","e","r","s"," ",
                           "e","r","r","o","r">>)
    THEN <<"e","t","l","_","o","r","d","e","r","s">>
    ELSE IF Contains(text, <<"i","n"," ","D","A","G"," ","s","a","l","e","s">>)
    THEN <<"s","a","l","e","s">>
    ELSE IF \/ Contains(text, <<"d","a","g",":"," ","o","t","h","e","r">>)
            \/ Contains(text, <<"d","a","g"," ","o","t","h","e","r">>)
    THEN <<"o","t","h","e","r">>
    ELSE W_unknown_dag

\* C13: dag_id comes from the first of 'DAG <id> failed|error', 'Task <t> in
\* DAG <id>', 'dag[: ]<id>' that matches, whatever ids the later patterns
\* would give, is 'unknown_dag' when none matches, and is never empty
C13_DagIdCascade ==
    Parsed =>
        /\ failure.v.dag_id # <<>>
        /\ event.text \in DagTexts \cup {T_pipeline}
               => failure.v.dag_id = CascadeId(event.text)

\* 'dag: other' comes first in the text, the task pattern second, and the
\* id is the one of 'DAG etl_orders failed'
C13_Witness ==
    /\ Parsed
    /\ event.text \in DagTexts
    /\ MatchAt(event.text, 1, <<"d","a","g",":"," ","o","t","h","e","r">>)
    /\ Contains(event.text, <<"i","n"," ","D","A","G"," ","s","a","l","e","s">>)
    /\ Contains(event.text, T_dag_failed)
    /\ failure.v.dag_id = <<"e","t","l","_","o","r","d","e","r","s">>

\* the taxonomy in the order of C14
TaxonomyOrder ==
    <<"timeout", "connection", "memory", "permission", "sql", "dbt", "python", "resource">>

\* the category C14 gives a text of TypeTexts: the earliest one in the order
\* that has its word in the text
EarliestCategory(text) ==
    LET hit == {k \in 1..Len(TaxonomyOrder) : Contains(text, CategoryWords[k])}
    IN  IF hit = {} THEN "general"
        ELSE TaxonomyOrder[CHOOSE k \in hit : \A m \in hit : k <= m]

\* C14: error_type is the earliest category, in the order timeout,
\* connection, memory, permission, sql, dbt, python, resource, whose pattern
\* matches, 'general' when none does, and always one of these nine
C14_FirstCategoryWins ==
    Parsed =>
        /\ failure.v.error_type \in
               {TaxonomyOrder[k] : k \in 1..Len(TaxonomyOrder)} \cup {"general"}
        /\ event.text \in TypeTexts
               => failure.v.error_type = EarliestCategory(event.text)

\* 'dbt' stands before 'sql' in the text and the type is sql
C14_Witness ==
    /\ Parsed
    /\ event.text = W_task \o <<" ">> \o W_dbt \o <<" ">> \o W_sql
    /\ failure.v.error_type = "sql"

\* the stage changes of C15: Received, Parsed, Planned and Collecting,
\* collection completed, Scored, Done, and Received to Rejected
StageOrder ==
    {<<"received", "parsed">>, <<"received", "rejected">>, <<"parsed", "collecting">>,
     <<"collecting", "collected">>, <<"collected", "analysed">>, <<"analysed", "done">>}

\* C15: a call goes through Received, Parsed, Planned, Collecting, Scored,
\* Done in this order or from Received to Rejected; the plan is made only
\* after a successful parse, the LLM is called only after the collection has
\* completed, and the score is computed from the collected context
C15_StagesInOrder ==
    [][/\ pc' # pc => <<pc, pc'>> \in StageOrder
       /\ tasks' # tasks => pc = "parsed" /\ failure # None
       /\ llm_calls' # llm_calls =>
              /\ pc = "collected"
              /\ yielded = 1..Len(futures)
              /\ Get(context.v.context_metadata, "total_tasks", -1) = Len(tasks)
       /\ result' # result =>
              /\ pc = "analysed"
              /\ result'.v.context = context.v
              /\ result'.v.confidence_score = _calculate_confidence_score(context.v)]_vars

TypeText(t) ==
    CASE t = "timeout" -> W_timeout
      [] t = "connection" -> <<"c","o","n","n","e","c","t","i","o","n">>
      [] t = "memory" -> W_memory
      [] t = "permission" -> W_permission
      [] t = "sql" -> W_sql
      [] t = "dbt" -> W_dbt
      [] t = "python" -> <<"p","y","t","h","o","n">>
      [] t = "resource" -> <<"r","e","s","o","u","r","c","e">>
      [] OTHER -> <<"g","e","n","e","r","a","l">>

\* a fallback summary of a failure: a text that has its error type, DAG id
\* and task id
IsFallbackSummary(text, f) ==
    /\ text # None
    /\ text.v # <<>>
    /\ Contains(text.v, TypeText(f.error_type))
    /\ Contains(text.v, f.dag_id)
    /\ f.task_id # None => Contains(text.v, f.task_id.v)

\* C17: the analysis delivered with a result is the LLM's text or, when the
\* LLM call failed, a fallback summary with error type, DAG id and task id
C17_FallbackOnLlmFailure ==
    pc = "done" =>
        \/ result.v.analysis = Some(AnalysisText)
        \/ IsFallbackSummary(result.v.analysis, failure.v)

\* the call of get_credentials at line 305, which an event with the four
\* keys reaches, failed
CredentialFailure ==
    /\ {"channel", "thread_ts", "parsed_data", "raw_message"} \subseteq lambda_event.keys
    /\ credential_calls # <<>>
    /\ ~credential_calls[1]

\* the posts of an analysis, the LLM's or the fallback text
AnalysisPosts == {k \in 1..Len(posts) : posts[k].message \in {"analysis", "fallback"}}

\* C18: when get_credentials fails, gather_diagnostics and the probes are not
\* called, the LLM is not invoked, no analysis is posted, and the handler
\* returns statusCode 500 with success false and the error text
C18_CredentialFailureIsFatal ==
    CredentialFailure =>
        /\ \A f \in LambdaCallees : calls[f] = 0
        /\ diagnostics = None
        /\ lambda_analysis = None
        /\ AnalysisPosts = {}
        /\ lambda_pc \in {"except", "returned"}
        /\ lambda_pc = "returned" =>
               response = Some([statusCode |-> 500, success |-> FALSE,
                                error |-> "credentials error"])

\* the handler returned 500 after the failure, having posted only the error
\* notice
C18_Witness ==
    /\ CredentialFailure
    /\ lambda_pc = "returned"
    /\ response.v.statusCode = 500
    /\ Len(posts) = 1
    /\ posts[1].message = "error notice"

\* C19: after get_credentials has failed it is called at most once more in
\* the invocation
C19_AtMostOneCallAfterFailure ==
    \A k \in 1..Len(credential_calls) :
        ~credential_calls[k] => Len(credential_calls) - k <= 1

\* the call of line 305 failed and the one of line 362 succeeded
C19_Witness ==
    /\ lambda_pc = "returned"
    /\ lambda_exc = "credentials error"
    /\ credential_calls = <<FALSE, TRUE>>

\* C20: lambda_handler returns a response with statusCode 200 or 500: 200
\* and success true whenever the analysis was posted, whatever the
\* diagnostics lack, 500 and success false when the post failed or an
\* exception reached the handler; post_to_slack returns true or false and
\* does not raise
C20_AlwaysResponds ==
    /\ \A k \in 1..Len(posts) :
           posts[k].returned = [raised |-> FALSE, value |-> posts[k].outcome = "ok"]
    /\ lambda_pc = "returned" =>
           /\ response # None
           /\ response.v.statusCode \in {200, 500}
           /\ response.v.success <=> response.v.statusCode = 200
           /\ (\E k \in AnalysisPosts : posts[k].outcome = "ok") =>
                  response.v.statusCode = 200 /\ response.v.success
           /\ (\/ lambda_exc # ""
               \/ \E k \in AnalysisPosts : posts[k].outcome # "ok") =>
                  response.v.statusCode = 500 /\ ~response.v.success

\* 200 was returned for diagnostics with a probe's error and an empty slot
C20_Witness ==
    /\ lambda_pc = "returned"
    /\ response.v.statusCode = 200
    /\ response.v.success
    /\ diagnostics.v.errors # <<>>
    /\ diagnostics.v.dag_status = None

\* the planned names with an entry '<name>_error' in the metadata
ErrorNames(ctx) ==
    {n \in ProbeNameSet : (n \o "_error") \in DOMAIN ctx.context_metadata}

\* C24: when the collection has finished before the deadline, each planned
\* probe was invoked exactly once and its name is either in completed_tasks
\* or has an '<name>_error' entry, never both; the two counts add up to
\* total_tasks, the size of the plan
C24_EachProbeAccountedOnce ==
    Collected =>
        LET md == context.v.context_metadata
        IN  /\ \A n \in ProbeNameSet :
                   invoked[n] = IF n \in NameSet(tasks) THEN 1 ELSE 0
            /\ SeqSet(completed_tasks) \cap ErrorNames(context.v) = {}
            /\ SeqSet(completed_tasks) \cup ErrorNames(context.v) = NameSet(tasks)
            /\ Cardinality(SeqSet(completed_tasks)) = Len(completed_tasks)
            /\ md["completed_tasks"] = completed_tasks
            /\ md["total_tasks"] = Len(tasks)
            /\ Len(completed_tasks)
                   + Cardinality(DOMAIN md \ {"completed_tasks", "total_tasks"})
                   = Len(tasks)

\* a collection of three probes or more ended with two errors and a result
C24_Witness ==
    /\ Collected
    /\ Len(tasks) >= 3
    /\ Cardinality(ErrorNames(context.v)) = 2
    /\ completed_tasks # <<>>

\* the step hands one finished future to the loop body, which applies it
AppliesOne(i) ==
    /\ i \in Done \ yielded
    /\ yielded' = yielded \cup {i}
    /\ futures' = futures
    /\ invoked' = invoked
    /\ futures[i].kind = "return" =>
           /\ context' = Some(_apply_diagnostic_result(context.v, tasks[i].name,
                                                       futures[i].value))
           /\ completed_tasks' = Append(completed_tasks, tasks[i].name)
    /\ futures[i].kind = "raise" =>
           /\ completed_tasks' = completed_tasks
           /\ context'.v.context_metadata[tasks[i].name \o "_error"] = futures[i].error

\* the context and completed_tasks are written during the collection, or
\* a future is handed over
CallerWrites ==
    /\ pc = "collecting"
    /\ pc' = "collecting"
    /\ context' # context \/ completed_tasks' # completed_tasks \/ yielded' # yielded

\* a worker thread starts or finishes a probe
WorkerStep == \E i \in 1..Len(futures) : futures'[i].state # futures[i].state

\* the statement of C25: every write to the context is the caller's, one
\* finished probe at a time in the order of completion; workers never write
C25_SingleWriterInCompletionOrder ==
    [][/\ WorkerStep => context' = context /\ completed_tasks' = completed_tasks
       /\ CallerWrites =>
              \E i \in 1..Len(futures) :
                  /\ AppliesOne(i)
                  /\ \A j \in Done \ yielded : futures[i].seq <= futures[j].seq]_vars

\* C25: every write to the context is the caller's, one finished probe at a
\* time; the probes that were finished when the caller began to wait are
\* applied first in any order, the others in the order of completion;
\* workers never write
C25_SingleWriter ==
    [][/\ WorkerStep => context' = context /\ completed_tasks' = completed_tasks
       /\ CallerWrites =>
              \E i \in 1..Len(futures) :
                  /\ AppliesOne(i)
                  /\ \/ futures[i].early = "yes"
                     \/ \A j \in Done \ yielded :
                            futures[j].early = "no" /\ futures[i].seq <= futures[j].seq]_vars

\* with two workers or more, a probe was applied before one that had
\* finished earlier
C25_Witness ==
    /\ pc = "collecting"
    /\ max_workers >= 2
    /\ \E i \in yielded : \E j \in Done \ yielded : futures[j].seq < futures[i].seq

\* the slot of the context that the probe of a name writes
TargetSlot(n) ==
    CASE n = "dag_state" -> "dag_state"
      [] n = "mwaa_logs" -> "mwaa_logs"
      [] n = "cloudwatch_errors" -> "cloudwatch_errors"
      [] n \in {"redshift_audit", "redshift_errors"} -> "redshift_audit"
      [] OTHER -> "none"

\* C26: applying a result for name n changes at most the slot of n and
\* nothing for an unknown name, and each of the dag_state, mwaa_logs and
\* cloudwatch_errors slots is written at most once in a diagnosis
C26_ApplyChangesOnlyItsSlot ==
    context # None =>
        /\ \A n \in ProbeNameSet \cup {"unknown"} :
           \A v \in {None, Some(<<>>), Some(<<"row">>)} :
               LET c == _apply_diagnostic_result(context.v, n, v)
               IN  /\ DOMAIN c = DOMAIN context.v
                   /\ \A slot \in DOMAIN c \ {TargetSlot(n)} : c[slot] = context.v[slot]
                   /\ n \notin {"redshift_audit", "redshift_errors"} /\ n \in ProbeNameSet
                          => c[TargetSlot(n)] = v
        /\ \A n \in {"dag_state", "mwaa_logs", "cloudwatch_errors"} :
               Cardinality({i \in yielded \cap Returned : tasks[i].name = n}) <= 1

\* two slots were written, each by its own probe
C26_Witness ==
    /\ pc = "collecting"
    /\ context.v.dag_state # None
    /\ context.v.mwaa_logs # None
    /\ context.v.cloudwatch_errors = None
    /\ "cloudwatch_errors" \in NameSet(tasks)

C21_MetricsNeverAffectOutcome ==
    published # <<>> =>
        /\ Len(published) = 1
        /\ published[1].MetricData = metrics
        /\ AnalysisPosts # {}
        /\ lambda_pc = "returned"
        /\ LET success == posts[Len(posts)].returned.value
           IN  response = Some([statusCode |-> IF success THEN 200 ELSE 500,
                                success |-> success, error |-> ""])

\* put_metric_data raised and the handler returned 200
C21_Witness ==
    /\ lambda_pc = "returned"
    /\ published # <<>>
    /\ ~published[1].ok
    /\ Len(published[1].MetricData) >= 3
    /\ response.v.statusCode = 200

\* the probes gather_diagnostics runs for a parsed_data
Applicable(pd) ==
    {"get_mwaa_task_logs", "get_dag_run_status"}
        \cup (IF Contains(Lower(pd.exception), <<"d","b","t">>)
              THEN {"query_redshift_audit_logs"} ELSE {})
        \cup (IF Contains(Lower(pd.task_id), <<"l","a","m","b","d","a">>)
              THEN {"get_cloudwatch_lambda_errors"} ELSE {})

\* C27: in gather_diagnostics the failure of a probe with any exception is
\* recorded in diagnostics['errors'], the other applicable probes are still
\* run and the diagnostics are returned
C27_ProbeFailureIsolated ==
    (/\ calls["gather_diagnostics"] = 1
     /\ lambda_event.parsed_data.keys =
            {"dag_id", "task_id", "execution_time", "exception", "log_url"}) =>
        /\ diagnostics # None
        /\ \A f \in Applicable(lambda_event.parsed_data) : calls[f] = 1
        /\ LET fetched == {k \in 1..Len(metrics) :
                              metrics[k] \in {"MWAALogsFetched", "DAGStatusFetched",
                                              "RedshiftAuditFetched", "CloudWatchLogsFetched"}}
           IN  Len(diagnostics.v.errors) + Cardinality(fetched)
                   = Cardinality(Applicable(lambda_event.parsed_data))

\* the call of the function named f has ended
Ended(f) == tool_call # None /\ tool_call.v.function = f /\ tool_result # None

\* C22: get_redshift_recent_errors returns a list on every path: the queried
\* records whenever the query succeeds, whether or not the secret lookup
\* succeeded, and an empty list, without raising, when the query fails
C22_RedshiftErrorsAlwaysList ==
    Ended("get_redshift_recent_errors") =>
        /\ ~tool_result.v.raised
        /\ IsList(tool_result.v.value)
        /\ tool_call.v.query = "ok" => tool_result.v.value = Some(tool_call.v.records)
        /\ tool_call.v.query # "ok" => tool_result.v.value = Some(<<>>)

\* the logs cannot be retrieved: the MWAA environment is not AVAILABLE, or
\* the request the function ends with raises or is answered by a status
\* other than 200
LogsNotRetrievable(c) ==
    \/ c.environment # "AVAILABLE"
    \/ c.authenticated = "raise" /\ c.direct # "200"
    \/ c.authenticated = "404"

\* C23: get_mwaa_task_logs, called with the URL of a log, raises
\* DiagnosticError when the logs cannot be retrieved
C23_MwaaLogsFailureRaises ==
    (/\ Ended("get_mwaa_task_logs")
     /\ MatchAt(tool_call.v.log_url, 1, <<"h","t","t","p","s",":","/","/","e">>)
     /\ LogsNotRetrievable(tool_call.v)) =>
        tool_result.v.raised

\* C28: get_cloudwatch_lambda_errors never raises and asks for the query
\* status at most 10 times; it returns the messages as soon as the status
\* is Complete and an empty list when the query fails, does not complete
\* within the polls, or a call raises
C28_CloudWatchErrorsBounded ==
    Ended("get_cloudwatch_lambda_errors") =>
        LET c == tool_call.v
            r == tool_result.v
            asked == {k \in 1..max_wait : c.answers[k] \notin {"Running", "Scheduled"}}
            first == CHOOSE k \in asked : \A j \in asked : k <= j
            rows == {i \in 1..Len(c.results) :
                        \E k \in 1..Len(c.results[i]) :
                            /\ c.results[i][k].field = "@message"
                            /\ c.results[i][k].value.len > 0}
        IN  /\ ~r.raised
            /\ IsList(r.value)
            /\ r.requests <= max_wait
            /\ IF c.start = "ok" /\ asked # {} /\ c.answers[first] = "Complete"
               THEN /\ r.requests = first
                    /\ Len(r.value.v) = Cardinality(rows)
                    /\ \A i \in 1..Len(r.value.v) :
                           \* the i-th message returned is that of the i-th such row
                           \E j \in rows :
                               /\ Cardinality({h \in rows : h < j}) = i - 1
                               /\ \E k \in 1..Len(c.results[j]) :
                                      /\ c.results[j][k].field = "@message"
                                      /\ c.results[j][k].value.text = r.value.v[i].text
                                      /\ r.value.v[i].len =
                                             IF c.results[j][k].value.len > MessageLimit
                                             THEN MessageLimit + 15
                                             ELSE c.results[j][k].value.len
               ELSE r.value = Some(<<>>)

\* the query was still running at each of the ten polls and would have been
\* complete at an eleventh: the call returned an empty list
C28_Witness ==
    /\ Ended("get_cloudwatch_lambda_errors")
    /\ tool_call.v.start = "ok"
    /\ \A k \in 1..max_wait : tool_call.v.answers[k] = "Running"
    /\ tool_call.v.answers[max_wait + 1] = "Complete"
    /\ tool_call.v.results # <<>>
    /\ tool_result.v = [raised |-> FALSE, value |-> Some(<<>>), requests |-> max_wait]

\* the message passes the four filters of handle_message_events
PassesFilters(m) ==
    /\ ~m.bot_id
    /\ m.username = "Apache Airflow"
    /\ Contains(m.text, SubSeq(T_scenario_a, 1, 17))
    /\ SearchFrom(m.text, 1, AIRFLOW_FAILURE_PATTERN, 1)

\* C30: the diagnostic Lambda is invoked at most once per message, only for
\* a message that passes all filters and after the acknowledgement reaction
\* was added successfully; the handler never raises
C30_InvokedOnceAfterAcknowledgement ==
    /\ Len(invocations) <= 1
    /\ Len(reactions) <= 1
    /\ listener_pc \in {"start", "acknowledging", "invoking", "caught", "returned"}
    /\ invocations # <<>> =>
           /\ PassesFilters(message.v)
           /\ reactions # <<>>
           /\ reactions[1].ok
    /\ (message # None /\ ~PassesFilters(message.v)) =>
           reactions = <<>> /\ invocations = <<>>
    /\ (reactions # <<>> /\ ~reactions[1].ok) =>
           invocations = <<>> /\ listener_pc = "caught"

\* a message that passed the filters was acknowledged and the Lambda was
\* invoked once, the invocation itself failing
C30_Witness ==
    /\ listener_pc = "returned"
    /\ Len(invocations) = 1
    /\ ~invocations[1].ok
    /\ reactions[1].ok

====
